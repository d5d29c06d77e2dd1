---------------------------- MODULE MemoryProofs ----------------------------
(* Proofs about memory, for any number of pages, envs and addresses. *)
EXTENDS Memory, CommonLemmas

(* The kernel has a page for every directory, table and mapping there can   *)
(* be: it never runs out of memory, which env_alloc and the callers of      *)
(* page_insert do not handle.                                               *)
Enough == NPAGE > NENV * (Cardinality(Addr) + 3)

----------------------------------------------------------------------------
(* The inductive invariant *)

Unmapped(mm, e, va) == mm.pte[e][va] = NoPte

(* A memory whose books are in order, while the pages of H are allocated    *)
(* and not yet mapped.                                                      *)
Counts(mm) == \A p \in Pages : mm.pp_ref[p] = References(mm, p)

FreeList(mm, H) ==
  /\ IsInjective(mm.free)
  /\ Range(mm.free) = {p \in Pages : mm.pp_ref[p] = 0} \ H
  /\ \A p \in H : p \in Pages /\ mm.pp_ref[p] = 0

Coherent(mm) ==
  \A e \in Envs :
    /\ \A va \in Addr : mm.tlb[e][va] \in {Absent, mm.pte[e][va]}
    /\ \A t \in Tables : mm.tlb[e][t] # Absent => mm.tlb[e][t].page = mm.pt[e][t] /\ mm.pt[e][t] # 0

(* A mapping is in a table, and an entry that is not valid is empty. *)
Tabled(mm) ==
  \A e \in Envs, va \in Addr :
    mm.pte[e][va].page = 0 \/ mm.pt[e][PDX(va)] = 0 => Unmapped(mm, e, va)

Sound(mm, H) ==
  mm \in Memories /\ ~mm.panic /\ Counts(mm) /\ FreeList(mm, H) /\ Coherent(mm) /\ Tabled(mm)

(* An env has a directory, and a slot that is free has nothing. *)
Dirs ==
  \A e \in Envs : IF status[e] = "FREE" THEN m.pgdir[e] = 0 /\ \A t \in Tables : m.pt[e][t] = 0
                                        ELSE m.pgdir[e] # 0

OtherTypes ==
  /\ status \in [Envs -> {"FREE", "NOT_RUNNABLE", "RUNNABLE"}]
  /\ parent \in [Envs -> 0..NENV] /\ entry \in [Envs -> BOOLEAN]
  /\ fk \in [Envs -> [pc : {"idle", "scan", "dup", "entry", "status"},
                       child : 0..NENV, i : 0..Len(AddrSeq), perm : Perms, n : 0..2]]
  /\ cow \in [Envs -> [pc : {"idle", "alloc", "copy1", "copy2", "map", "unmap"},
                        va : Addr, perm : Perms]]
  /\ want \in [Envs -> [Addr -> [Halves -> {0} \cup Stores]]]
  /\ left \in [calls : 0..NCALL, evicts : 0..NEVICT]

Page(e, va) == m.pte[e][va].page
Perm(e, va) == m.pte[e][va].perm

(* The permissions there are: private, copy on write, shared. *)
Kinds ==
  \A e \in Envs, va \in Addr : Page(e, va) # 0 =>
    /\ Perm(e, va) \in {{D}, {COW}, {D, LIB}}
    /\ va = "UCOW" => Perm(e, va) = {D}

(* Where fork is: what it has read of page i is still true, its child has   *)
(* none of the pages it has not come to, and is nobody else's.              *)
Forker(e) ==
  /\ status[e] = "RUNNABLE" /\ entry[e]
  /\ fk[e].child \in Envs /\ status[fk[e].child] = "NOT_RUNNABLE"
  /\ \A f \in Envs : fk[f].pc # "idle" /\ fk[f].child = fk[e].child => f = e

InScan(e) ==
  /\ fk[e].i \in 1..Len(AddrSeq)
  /\ \A j \in fk[e].i..Len(AddrSeq) : Unmapped(m, fk[e].child, AddrSeq[j])

InDup(e) ==
  LET va == AddrSeq[fk[e].i]
      c  == fk[e].child
  IN /\ fk[e].i \in 2..Len(AddrSeq)
     /\ Page(e, va) # 0 /\ Perm(e, va) = fk[e].perm
     /\ cow[e].pc # "idle" => cow[e].va # va
     /\ \/ fk[e].n = 1 /\ Unmapped(m, c, va)
        \/ fk[e].n = 2 /\ fk[e].perm = {D} /\ m.pte[c][va] = [page |-> Page(e, va), perm |-> {COW}]
     /\ \A j \in (fk[e].i + 1)..Len(AddrSeq) : Unmapped(m, c, AddrSeq[j])

InFork(e) ==
  fk[e].pc # "idle" =>
    /\ Forker(e)
    /\ fk[e].pc = "scan" => InScan(e)
    /\ fk[e].pc = "dup" => InDup(e)
    /\ fk[e].pc = "status" => entry[fk[e].child]

Forks == \A e \in Envs : InFork(e)

(* Where cow_entry is: the page it copies does not change, and what it has  *)
(* copied is the same.                                                      *)
InCow(e) ==
  LET va == cow[e].va
      pc == cow[e].pc
  IN /\ status[e] = "RUNNABLE" /\ va # "UCOW"
     /\ pc # "unmap" => Page(e, va) # 0 /\ Perm(e, va) = {COW}
     /\ pc \notin {"alloc", "unmap"} => Page(e, "UCOW") # 0 /\ cow[e].perm = {D}
     /\ pc \in {"copy2", "map"} => m.mem[Page(e, "UCOW")][1] = m.mem[Page(e, va)][1]
     /\ pc = "map" => m.mem[Page(e, "UCOW")][2] = m.mem[Page(e, va)][2]
     /\ pc = "unmap" => Page(e, va) # 0 /\ m.pte[e][va] = m.pte[e]["UCOW"]

CowOf(e) ==
  /\ cow[e].pc # "idle" => InCow(e)
  /\ cow[e].pc \in {"idle", "alloc"} => Unmapped(m, e, "UCOW")

Cows == \A e \in Envs : CowOf(e)

(* fork has mapped page va in the child f of e and not yet marked it in e. *)
Window(e, va, f) ==
  fk[e].pc = "dup" /\ fk[e].n = 2 /\ AddrSeq[fk[e].i] = va /\ fk[e].child = f

(* Two mappings of the same page. *)
MayAlias(e, va, f, vb) ==
  \/ Perm(e, va) = {COW} /\ Perm(f, vb) = {COW}
  \/ Perm(e, va) = {D, LIB} /\ Perm(f, vb) = {D, LIB}
  \/ va = vb /\ (Window(e, va, f) \/ Window(f, vb, e))
  \/ e = f /\ cow[e].pc = "unmap" /\ {va, vb} = {"UCOW", cow[e].va}

Exclusive ==
  \A e, f \in Envs, va, vb \in Addr :
    Page(e, va) # 0 /\ Page(e, va) = Page(f, vb) => <<e, va>> = <<f, vb>> \/ MayAlias(e, va, f, vb)

(* An env that may fault on a page without PTE_D has cow_entry. *)
Handled == \A e \in Envs, va \in Addr : status[e] = "RUNNABLE" /\ Perm(e, va) = {COW} => entry[e]

(* Every env that runs, or will run when its parent's fork ends, sees what  *)
(* it has stored.                                                           *)
Child(e) == \E f \in Envs : fk[f].pc # "idle" /\ fk[f].child = e
PrivateAt(e, va) ==
  /\ status[e] = "RUNNABLE" \/ Child(e)
  /\ ~Shared(m, e, va)
  /\ \A f \in Envs : ~Window(f, va, e)
  => View(m, e, va) = want[e][va]

Private == \A e \in Envs, va \in Range(Data) : PrivateAt(e, va)

IInv ==
  /\ Sound(m, {}) /\ Dirs /\ OtherTypes
  /\ Kinds /\ Forks /\ Cows /\ Exclusive /\ Handled /\ Private

----------------------------------------------------------------------------
(* The constants *)

LEMMA Prefixed ==
  ASSUME NEW S, NEW s \in Seq(S), NEW x \in S
  PROVE  /\ <<x>> \o s \in Seq(S) /\ Len(<<x>> \o s) = Len(s) + 1 /\ (<<x>> \o s)[1] = x
         /\ \A i \in 2..(Len(s) + 1) : (<<x>> \o s)[i] = s[i - 1]
  OBVIOUS

LEMMA AddrFacts ==
  /\ Len(AddrSeq) \in Nat /\ Len(AddrSeq) >= 2 /\ DOMAIN AddrSeq = 1..Len(AddrSeq)
  /\ AddrSeq[1] = "UCOW"
  /\ \A i \in 2..Len(AddrSeq) : AddrSeq[i] \in Range(Data)
  /\ \A i, j \in 1..Len(AddrSeq) : AddrSeq[i] = AddrSeq[j] => i = j
  /\ Addr = {AddrSeq[i] : i \in 1..Len(AddrSeq)}
  /\ Addr = {"UCOW"} \cup Range(Data) /\ "UCOW" \notin Range(Data)
  /\ \A va \in Addr : PDX(va) \in Tables /\ va \notin Tables
  /\ Data[1] \in Range(Data)
<1>1. Data \in Seq(STRING) /\ Data # <<>> /\ IsInjective(Data)
  BY MemoryAssumption
<1>2. /\ Len(Data) \in Nat /\ Len(Data) >= 1 /\ DOMAIN Data = 1..Len(Data)
      /\ \A i \in 1..Len(Data) : Data[i] \in STRING
  BY <1>1
<1> DEFINE S == {"UCOW"} \cup Range(Data)
<1>3. AddrSeq \in Seq(S) /\ Len(AddrSeq) = Len(Data) + 1 /\ Data \in Seq(S)
  <2>1. Data \in [1..Len(Data) -> S]
    BY <1>1, <1>2 DEF Range
  <2>2. Data \in Seq(S) /\ "UCOW" \in S
    BY <1>2, <2>1, FunctionIsSeq
  <2> HIDE DEF S
  <2> QED
    BY <2>2, Prefixed DEF AddrSeq
<1>4. AddrSeq[1] = "UCOW" /\ \A i \in 2..Len(AddrSeq) : AddrSeq[i] = Data[i - 1] /\ i - 1 \in 1..Len(Data)
  <2>1. "UCOW" \in S
    OBVIOUS
  <2> HIDE DEF S
  <2> QED
    BY <1>2, <1>3, <2>1, Prefixed DEF AddrSeq
<1> HIDE DEF S
<1>5. Range(Data) = {Data[i] : i \in 1..Len(Data)}
  BY <1>2 DEF Range
<1>6. /\ "UCOW" \notin Range(Data) /\ "T0" \notin Range(Data) /\ "T1" \notin Range(Data)
  BY MemoryAssumption
<1>7. DOMAIN AddrSeq = 1..Len(AddrSeq) /\ Len(AddrSeq) \in Nat
  BY <1>3
<1>8. Addr = {AddrSeq[i] : i \in 1..Len(AddrSeq)}
  BY <1>7 DEF Addr, Range
<1>9. Addr = {"UCOW"} \cup Range(Data)
  <2>1. \A i \in 1..Len(Data) : i + 1 \in 2..Len(AddrSeq) /\ AddrSeq[i + 1] = Data[i]
    BY <1>2, <1>3, <1>4
  <2>2. \A i \in 1..Len(AddrSeq) : i = 1 \/ i \in 2..Len(AddrSeq)
    BY <1>3
  <2>3. \A i \in 1..Len(AddrSeq) : AddrSeq[i] \in {"UCOW"} \cup Range(Data)
    BY <1>4, <1>5, <2>2
  <2>4. \A i \in 1..Len(Data) : Data[i] \in Addr
    <3> TAKE i \in 1..Len(Data)
    <3>1. i + 1 \in 1..Len(AddrSeq) /\ AddrSeq[i + 1] = Data[i]
      BY <2>1
    <3> QED
      BY <1>8, <3>1
  <2>5. "UCOW" \in Addr
    BY <1>2, <1>3, <1>4, <1>8
  <2> QED
    BY <1>5, <1>8, <2>3, <2>4, <2>5
<1>10. \A i, j \in 1..Len(AddrSeq) : AddrSeq[i] = AddrSeq[j] => i = j
  <2> SUFFICES ASSUME NEW i \in 1..Len(AddrSeq), NEW j \in 1..Len(AddrSeq), AddrSeq[i] = AddrSeq[j]
               PROVE  i = j
    OBVIOUS
  <2>1. CASE i = 1 \/ j = 1
    BY <1>3, <1>4, <1>5, <1>6, <2>1
  <2>2. CASE i # 1 /\ j # 1
    <3>1. i \in 2..Len(AddrSeq) /\ j \in 2..Len(AddrSeq)
      BY <1>7, <2>2
    <3>2. Data[i - 1] = Data[j - 1] /\ i - 1 \in DOMAIN Data /\ j - 1 \in DOMAIN Data
      BY <1>2, <1>4, <3>1
    <3>3. i - 1 = j - 1
      BY <1>1, <3>2 DEF IsInjective
    <3> QED
      BY <1>7, <3>3
  <2> QED
    BY <2>1, <2>2
<1>11. \A va \in Addr : PDX(va) \in Tables /\ va \notin Tables
  BY <1>6, <1>9 DEF PDX, Tables
<1>12. \A i \in 2..Len(AddrSeq) : AddrSeq[i] \in Range(Data)
  BY <1>4, <1>5
<1>13. Data[1] \in Range(Data)
  BY <1>2, <1>5
<1> QED
  BY <1>2, <1>3, <1>4, <1>6, <1>7, <1>8, <1>9, <1>10, <1>11, <1>12, <1>13

LEMMA SizeFacts ==
  /\ NPAGE \in Nat /\ NENV \in Nat /\ Pages = 1..NPAGE /\ Envs = 1..NENV
  /\ IsFiniteSet(Pages) /\ Cardinality(Pages) = NPAGE
  /\ IsFiniteSet(Envs) /\ Cardinality(Envs) = NENV
  /\ IsFiniteSet(Tables) /\ Cardinality(Tables) = 2
  /\ IsFiniteSet(Addr) /\ Cardinality(Addr) \in Nat
<1>1. NPAGE \in Nat /\ NENV \in Nat /\ NPAGE > 0 /\ NENV > 0
  BY MemoryAssumption
<1>2. /\ IsFiniteSet(Pages) /\ Cardinality(Pages) = NPAGE
      /\ IsFiniteSet(Envs) /\ Cardinality(Envs) = NENV
  BY <1>1, FS_Interval DEF Pages, Envs
<1>3. IsFiniteSet(Tables) /\ Cardinality(Tables) = 2
  <2>1. IsFiniteSet({"T0"}) /\ Cardinality({"T0"}) = 1
    BY FS_Singleton
  <2>2. Tables = {"T0"} \cup {"T1"} /\ "T1" \notin {"T0"}
    BY DEF Tables
  <2> QED
    BY <2>1, <2>2, FS_AddElement
<1>4. IsFiniteSet(Addr) /\ Cardinality(Addr) \in Nat
  <2>1. Len(AddrSeq) \in Nat /\ DOMAIN AddrSeq = 1..Len(AddrSeq) /\ Addr = {AddrSeq[i] : i \in 1..Len(AddrSeq)}
    BY AddrFacts
  <2>2. IsFiniteSet(1..Len(AddrSeq))
    BY <2>1, FS_Interval
  <2> DEFINE f == [i \in 1..Len(AddrSeq) |-> AddrSeq[i]]
  <2>3. f \in Surjection(1..Len(AddrSeq), Addr)
    BY <2>1 DEF Surjection
  <2> HIDE DEF f
  <2> QED
    BY <2>2, <2>3, FS_Surjection, FS_CardinalityType
<1> QED
  BY <1>1, <1>2, <1>3, <1>4 DEF Pages, Envs

LEMMA PteFacts ==
  /\ NoPte \in Ptes /\ Absent \notin Ptes /\ NoPte # Absent /\ NoPte.page = 0
  /\ \A p \in Pages : \A perm \in Perms : [page |-> p, perm |-> perm] \in Ptes
  /\ \A x \in Ptes : x.page \in Nat /\ x.page <= NPAGE /\ (x.page # 0 => x.page \in Pages)
  /\ Clear \in [Halves -> {0} \cup Stores]
<1>1. NPAGE \in Nat
  BY SizeFacts
<1>2. NoPte \in Ptes /\ NoPte.page = 0
  BY <1>1 DEF NoPte, Ptes, Perms
<1>3. Absent.page = -1
  BY DEF Absent
<1>4. \A x \in Ptes : x.page \in 0..NPAGE
  BY DEF Ptes
<1>5. Absent \notin Ptes /\ NoPte # Absent
  BY <1>1, <1>2, <1>3, <1>4
<1>6. \A p \in Pages : \A perm \in Perms : [page |-> p, perm |-> perm] \in Ptes
  BY <1>1 DEF Ptes, Pages
<1>7. \A x \in Ptes : x.page \in Nat /\ x.page <= NPAGE /\ (x.page # 0 => x.page \in Pages)
  BY <1>1, <1>4 DEF Pages
<1> QED
  BY <1>2, <1>5, <1>6, <1>7 DEF Clear

----------------------------------------------------------------------------
(* Counting references *)

MapRefs(mm, p)   == {x \in Envs \X Addr : mm.pte[x[1]][x[2]].page = p}
TableRefs(mm, p) == {x \in Envs \X Tables : mm.pt[x[1]][x[2]] = p}
DirRefs(mm, p)   == {e \in Envs : mm.pgdir[e] = p}

One(b) == IF b THEN 1 ELSE 0

(* Two sets that differ in one element at most. *)
LEMMA CountMove ==
  ASSUME NEW S, IsFiniteSet(S), NEW A \in SUBSET S, NEW B \in SUBSET S, NEW x,
         \A y \in S : y # x => (y \in A <=> y \in B)
  PROVE  /\ Cardinality(A) \in Nat /\ Cardinality(B) \in Nat
         /\ Cardinality(B) + One(x \in A) = Cardinality(A) + One(x \in B)
<1>1. IsFiniteSet(A) /\ IsFiniteSet(B) /\ Cardinality(A) \in Nat /\ Cardinality(B) \in Nat
  BY FS_Subset, FS_CardinalityType
<1>2. CASE (x \in A <=> x \in B)
  <2>1. A = B
    BY <1>2
  <2> QED
    BY <1>1, <2>1
<1>3. CASE x \in A /\ x \notin B
  <2>1. B = A \ {x}
    BY <1>3
  <2>2. Cardinality(B) = Cardinality(A) - 1
    BY <1>1, <1>3, <2>1, FS_RemoveElement
  <2> QED
    BY <1>1, <1>3, <2>2 DEF One
<1>4. CASE x \notin A /\ x \in B
  <2>1. B = A \cup {x}
    BY <1>4
  <2>2. Cardinality(B) = Cardinality(A) + 1
    BY <1>1, <1>4, <2>1, FS_AddElement
  <2> QED
    BY <1>1, <1>4, <2>2 DEF One
<1> QED
  BY <1>2, <1>3, <1>4

LEMMA RefSets ==
  ASSUME NEW mm, NEW p
  PROVE  /\ IsFiniteSet(Envs \X Addr) /\ IsFiniteSet(Envs \X Tables) /\ IsFiniteSet(Envs)
         /\ MapRefs(mm, p) \in SUBSET (Envs \X Addr)
         /\ TableRefs(mm, p) \in SUBSET (Envs \X Tables)
         /\ DirRefs(mm, p) \in SUBSET Envs
         /\ IsFiniteSet(MapRefs(mm, p)) /\ IsFiniteSet(TableRefs(mm, p)) /\ IsFiniteSet(DirRefs(mm, p))
         /\ Cardinality(MapRefs(mm, p)) \in Nat /\ Cardinality(TableRefs(mm, p)) \in Nat
         /\ Cardinality(DirRefs(mm, p)) \in Nat
         /\ References(mm, p) = Cardinality(MapRefs(mm, p)) + Cardinality(TableRefs(mm, p))
                                  + Cardinality(DirRefs(mm, p))
         /\ References(mm, p) \in Nat
<1>1. IsFiniteSet(Envs \X Addr) /\ IsFiniteSet(Envs \X Tables) /\ IsFiniteSet(Envs)
  BY SizeFacts, FS_Product
<1>2. /\ MapRefs(mm, p) \in SUBSET (Envs \X Addr)
      /\ TableRefs(mm, p) \in SUBSET (Envs \X Tables)
      /\ DirRefs(mm, p) \in SUBSET Envs
  BY DEF MapRefs, TableRefs, DirRefs
<1>3. /\ IsFiniteSet(MapRefs(mm, p)) /\ IsFiniteSet(TableRefs(mm, p)) /\ IsFiniteSet(DirRefs(mm, p))
      /\ Cardinality(MapRefs(mm, p)) \in Nat /\ Cardinality(TableRefs(mm, p)) \in Nat
      /\ Cardinality(DirRefs(mm, p)) \in Nat
  BY <1>1, <1>2, FS_Subset, FS_CardinalityType
<1>4. References(mm, p) = Cardinality(MapRefs(mm, p)) + Cardinality(TableRefs(mm, p))
                            + Cardinality(DirRefs(mm, p))
  BY DEF References, MapRefs, TableRefs, DirRefs
<1> QED
  BY <1>1, <1>2, <1>3, <1>4

(* A page with no references is nowhere, and one that is somewhere has some. *)
LEMMA Referenced ==
  ASSUME NEW mm, NEW p, References(mm, p) = 0
  PROVE  /\ \A e \in Envs, va \in Addr : mm.pte[e][va].page # p
         /\ \A e \in Envs, t \in Tables : mm.pt[e][t] # p
         /\ \A e \in Envs : mm.pgdir[e] # p
<1>1. /\ Cardinality(MapRefs(mm, p)) = 0 /\ Cardinality(TableRefs(mm, p)) = 0
      /\ Cardinality(DirRefs(mm, p)) = 0
  BY RefSets
<1>2. MapRefs(mm, p) = {} /\ TableRefs(mm, p) = {} /\ DirRefs(mm, p) = {}
  BY <1>1, RefSets, FS_EmptySet
<1>3. ASSUME NEW e \in Envs, NEW va \in Addr PROVE mm.pte[e][va].page # p
  <2>1. <<e, va>> \in Envs \X Addr /\ <<e, va>>[1] = e /\ <<e, va>>[2] = va
    OBVIOUS
  <2> QED
    BY <1>2, <2>1 DEF MapRefs
<1>4. ASSUME NEW e \in Envs, NEW t \in Tables PROVE mm.pt[e][t] # p
  <2>1. <<e, t>> \in Envs \X Tables /\ <<e, t>>[1] = e /\ <<e, t>>[2] = t
    OBVIOUS
  <2> QED
    BY <1>2, <2>1 DEF TableRefs
<1>5. ASSUME NEW e \in Envs PROVE mm.pgdir[e] # p
  BY <1>2 DEF DirRefs
<1> QED
  BY <1>3, <1>4, <1>5

(* One entry changes: of a page table, of a directory, or the directory.    *)
PteSet(mm, n, e, va, x) ==
  \A f \in Envs, vb \in Addr : n.pte[f][vb] = IF f = e /\ vb = va THEN x ELSE mm.pte[f][vb]
PtSet(mm, n, e, t, p) ==
  \A f \in Envs, u \in Tables : n.pt[f][u] = IF f = e /\ u = t THEN p ELSE mm.pt[f][u]
DirSet(mm, n, e, p) == \A f \in Envs : n.pgdir[f] = IF f = e THEN p ELSE mm.pgdir[f]

LEMMA PteRefs ==
  ASSUME NEW mm, NEW n, NEW e \in Envs, NEW va \in Addr, NEW x, NEW p,
         PteSet(mm, n, e, va, x), n.pt = mm.pt, n.pgdir = mm.pgdir
  PROVE  References(n, p) + One(mm.pte[e][va].page = p) = References(mm, p) + One(x.page = p)
<1> DEFINE A == MapRefs(mm, p)
           B == MapRefs(n, p)
           y == <<e, va>>
<1>1. TableRefs(n, p) = TableRefs(mm, p) /\ DirRefs(n, p) = DirRefs(mm, p)
  BY DEF TableRefs, DirRefs
<1>2. y \in A <=> mm.pte[e][va].page = p
  BY DEF MapRefs
<1>3. y \in B <=> x.page = p
  BY DEF MapRefs, PteSet
<1>4. \A z \in Envs \X Addr : z # y => (z \in A <=> z \in B)
  <2> SUFFICES ASSUME NEW z \in Envs \X Addr, z # y PROVE z \in A <=> z \in B
    OBVIOUS
  <2>1. z[1] \in Envs /\ z[2] \in Addr /\ ~(z[1] = e /\ z[2] = va)
    OBVIOUS
  <2>2. n.pte[z[1]][z[2]] = mm.pte[z[1]][z[2]]
    BY <2>1 DEF PteSet
  <2> QED
    BY <2>2 DEF MapRefs
<1> HIDE DEF A, B, y
<1>5. /\ Cardinality(A) \in Nat /\ Cardinality(B) \in Nat
      /\ Cardinality(B) + One(y \in A) = Cardinality(A) + One(y \in B)
  <2>1. A \in SUBSET (Envs \X Addr) /\ B \in SUBSET (Envs \X Addr) /\ IsFiniteSet(Envs \X Addr)
    BY RefSets DEF A, B
  <2> QED
    BY <1>4, <2>1, CountMove
<1>6. /\ References(mm, p) = Cardinality(A) + Cardinality(TableRefs(mm, p)) + Cardinality(DirRefs(mm, p))
      /\ References(n, p) = Cardinality(B) + Cardinality(TableRefs(mm, p)) + Cardinality(DirRefs(mm, p))
      /\ Cardinality(TableRefs(mm, p)) \in Nat /\ Cardinality(DirRefs(mm, p)) \in Nat
  BY <1>1, RefSets DEF A, B
<1>7. One(y \in A) = One(mm.pte[e][va].page = p) /\ One(y \in B) = One(x.page = p)
  BY <1>2, <1>3 DEF One
<1> QED
  BY <1>5, <1>6, <1>7 DEF One

LEMMA PtRefs ==
  ASSUME NEW mm, NEW n, NEW e \in Envs, NEW t \in Tables, NEW x, NEW p,
         PtSet(mm, n, e, t, x), n.pte = mm.pte, n.pgdir = mm.pgdir
  PROVE  References(n, p) + One(mm.pt[e][t] = p) = References(mm, p) + One(x = p)
<1> DEFINE A == TableRefs(mm, p)
           B == TableRefs(n, p)
           y == <<e, t>>
<1>1. MapRefs(n, p) = MapRefs(mm, p) /\ DirRefs(n, p) = DirRefs(mm, p)
  BY DEF MapRefs, DirRefs
<1>2. y \in A <=> mm.pt[e][t] = p
  BY DEF TableRefs
<1>3. y \in B <=> x = p
  BY DEF TableRefs, PtSet
<1>4. \A z \in Envs \X Tables : z # y => (z \in A <=> z \in B)
  <2> SUFFICES ASSUME NEW z \in Envs \X Tables, z # y PROVE z \in A <=> z \in B
    OBVIOUS
  <2>1. z[1] \in Envs /\ z[2] \in Tables /\ ~(z[1] = e /\ z[2] = t)
    OBVIOUS
  <2>2. n.pt[z[1]][z[2]] = mm.pt[z[1]][z[2]]
    BY <2>1 DEF PtSet
  <2> QED
    BY <2>2 DEF TableRefs
<1> HIDE DEF A, B, y
<1>5. /\ Cardinality(A) \in Nat /\ Cardinality(B) \in Nat
      /\ Cardinality(B) + One(y \in A) = Cardinality(A) + One(y \in B)
  <2>1. A \in SUBSET (Envs \X Tables) /\ B \in SUBSET (Envs \X Tables) /\ IsFiniteSet(Envs \X Tables)
    BY RefSets DEF A, B
  <2> QED
    BY <1>4, <2>1, CountMove
<1>6. /\ References(mm, p) = Cardinality(MapRefs(mm, p)) + Cardinality(A) + Cardinality(DirRefs(mm, p))
      /\ References(n, p) = Cardinality(MapRefs(mm, p)) + Cardinality(B) + Cardinality(DirRefs(mm, p))
      /\ Cardinality(MapRefs(mm, p)) \in Nat /\ Cardinality(DirRefs(mm, p)) \in Nat
  BY <1>1, RefSets DEF A, B
<1>7. One(y \in A) = One(mm.pt[e][t] = p) /\ One(y \in B) = One(x = p)
  BY <1>2, <1>3 DEF One
<1> QED
  BY <1>5, <1>6, <1>7 DEF One

LEMMA DirCount ==
  ASSUME NEW mm, NEW n, NEW e \in Envs, NEW x, NEW p,
         DirSet(mm, n, e, x), n.pte = mm.pte, n.pt = mm.pt
  PROVE  References(n, p) + One(mm.pgdir[e] = p) = References(mm, p) + One(x = p)
<1> DEFINE A == DirRefs(mm, p)
           B == DirRefs(n, p)
<1>1. MapRefs(n, p) = MapRefs(mm, p) /\ TableRefs(n, p) = TableRefs(mm, p)
  BY DEF MapRefs, TableRefs
<1>2. /\ e \in A <=> mm.pgdir[e] = p
      /\ e \in B <=> x = p
      /\ \A z \in Envs : z # e => (z \in A <=> z \in B)
  BY DEF DirRefs, DirSet
<1> HIDE DEF A, B
<1>3. /\ Cardinality(A) \in Nat /\ Cardinality(B) \in Nat
      /\ Cardinality(B) + One(e \in A) = Cardinality(A) + One(e \in B)
  <2>1. A \in SUBSET Envs /\ B \in SUBSET Envs /\ IsFiniteSet(Envs)
    BY RefSets DEF A, B
  <2> QED
    BY <1>2, <2>1, CountMove
<1>4. /\ References(mm, p) = Cardinality(MapRefs(mm, p)) + Cardinality(TableRefs(mm, p)) + Cardinality(A)
      /\ References(n, p) = Cardinality(MapRefs(mm, p)) + Cardinality(TableRefs(mm, p)) + Cardinality(B)
      /\ Cardinality(MapRefs(mm, p)) \in Nat /\ Cardinality(TableRefs(mm, p)) \in Nat
  BY <1>1, RefSets DEF A, B
<1>5. One(e \in A) = One(mm.pgdir[e] = p) /\ One(e \in B) = One(x = p)
  BY <1>2 DEF One
<1> QED
  BY <1>3, <1>4, <1>5 DEF One

----------------------------------------------------------------------------
(* The books when a page gets or loses a reference *)

LEMMA Fields ==
  ASSUME NEW mm \in Memories
  PROVE  /\ mm.pp_ref \in [Pages -> Nat] /\ mm.free \in Seq(Pages)
         /\ mm.mem \in [Pages -> [Halves -> {0} \cup Stores]]
         /\ mm.pgdir \in [Envs -> 0..NPAGE] /\ mm.pt \in [Envs -> [Tables -> 0..NPAGE]]
         /\ mm.pte \in [Envs -> [Addr -> Ptes]]
         /\ mm.tlb \in [Envs -> [Addr \cup Tables -> Ptes \cup {Absent}]]
         /\ mm.panic \in BOOLEAN
  BY DEF Memories

(* A page that is mapped, a table or a directory has references, and is not *)
(* on the free list.                                                        *)
LEMMA InUse ==
  ASSUME NEW mm, NEW H, Sound(mm, H)
  PROVE  /\ \A e \in Envs, va \in Addr :
              mm.pte[e][va].page # 0 => mm.pte[e][va].page \in Pages /\ mm.pp_ref[mm.pte[e][va].page] # 0
         /\ \A e \in Envs, t \in Tables :
              mm.pt[e][t] # 0 => mm.pt[e][t] \in Pages /\ mm.pp_ref[mm.pt[e][t]] # 0
         /\ \A e \in Envs :
              mm.pgdir[e] # 0 => mm.pgdir[e] \in Pages /\ mm.pp_ref[mm.pgdir[e]] # 0
<1>1. mm \in Memories /\ Counts(mm)
  BY DEF Sound
<1>2. NPAGE \in Nat /\ Pages = 1..NPAGE
  BY SizeFacts
<1>3. /\ \A e \in Envs, va \in Addr : mm.pte[e][va] \in Ptes
      /\ \A e \in Envs, t \in Tables : mm.pt[e][t] \in 0..NPAGE
      /\ \A e \in Envs : mm.pgdir[e] \in 0..NPAGE
  BY <1>1, Fields
<1>4. \A p \in Pages : mm.pp_ref[p] = 0 => References(mm, p) = 0
  BY <1>1 DEF Counts
<1>5. ASSUME NEW e \in Envs, NEW va \in Addr, mm.pte[e][va].page # 0
      PROVE  mm.pte[e][va].page \in Pages /\ mm.pp_ref[mm.pte[e][va].page] # 0
  <2>1. mm.pte[e][va].page \in Pages
    BY <1>3, <1>5, PteFacts
  <2> QED
    BY <1>4, <2>1, Referenced
<1>6. ASSUME NEW e \in Envs, NEW t \in Tables, mm.pt[e][t] # 0
      PROVE  mm.pt[e][t] \in Pages /\ mm.pp_ref[mm.pt[e][t]] # 0
  <2>1. mm.pt[e][t] \in Pages
    BY <1>2, <1>3, <1>6
  <2> QED
    BY <1>4, <2>1, Referenced
<1>7. ASSUME NEW e \in Envs, mm.pgdir[e] # 0
      PROVE  mm.pgdir[e] \in Pages /\ mm.pp_ref[mm.pgdir[e]] # 0
  <2>1. mm.pgdir[e] \in Pages
    BY <1>2, <1>3, <1>7
  <2> QED
    BY <1>4, <2>1, Referenced
<1> QED
  BY <1>5, <1>6, <1>7

(* What page_decref does to the books. *)
Dropped(mm, n, p) ==
  /\ n.pp_ref = [mm.pp_ref EXCEPT ![p] = @ - 1]
  /\ n.free = IF mm.pp_ref[p] = 1 THEN <<p>> \o mm.free ELSE mm.free

LEMMA Drop ==
  ASSUME NEW mm \in Memories, NEW n, NEW H, NEW p \in Pages,
         Counts(mm), FreeList(mm, H), mm.pp_ref[p] # 0, Dropped(mm, n, p),
         \A q \in Pages : References(n, q) + One(q = p) = References(mm, q)
  PROVE  /\ Counts(n) /\ FreeList(n, H)
         /\ n.pp_ref \in [Pages -> Nat] /\ n.free \in Seq(Pages)
<1>1. mm.pp_ref \in [Pages -> Nat] /\ mm.free \in Seq(Pages)
  BY Fields
<1>2. n.pp_ref \in [Pages -> Nat]
  BY <1>1 DEF Dropped
<1>3. n.free \in Seq(Pages)
  BY <1>1 DEF Dropped
<1>4. Counts(n)
  <2> SUFFICES ASSUME NEW q \in Pages PROVE n.pp_ref[q] = References(n, q)
    BY DEF Counts
  <2>1. mm.pp_ref[q] = References(mm, q) /\ References(n, q) \in Nat /\ mm.pp_ref[q] \in Nat
    BY <1>1, RefSets DEF Counts
  <2>2. n.pp_ref[q] = IF q = p THEN mm.pp_ref[q] - 1 ELSE mm.pp_ref[q]
    BY <1>1 DEF Dropped
  <2> QED
    BY <2>1, <2>2 DEF One
<1>5. \A q \in H : q \in Pages /\ q # p /\ mm.pp_ref[q] = 0 /\ n.pp_ref[q] = 0
  BY <1>1 DEF FreeList, Dropped
<1>6. IsInjective(mm.free) /\ Range(mm.free) = {q \in Pages : mm.pp_ref[q] = 0} \ H
  BY DEF FreeList
<1>7. CASE mm.pp_ref[p] = 1
  <2> DEFINE s == mm.free
             N == Len(mm.free)
  <2>1. /\ N \in Nat /\ n.free = <<p>> \o s /\ Len(n.free) = N + 1 /\ n.free[1] = p
        /\ \A i \in 1..N : n.free[i + 1] = s[i]
        /\ DOMAIN s = 1..N /\ DOMAIN n.free = 1..(N + 1)
    BY <1>1, <1>7 DEF Dropped
  <2>2. Range(s) = {s[i] : i \in 1..N} /\ Range(n.free) = {n.free[i] : i \in 1..(N + 1)}
    BY <2>1 DEF Range
  <2>3. p \notin Range(s)
    BY <1>6, <1>7
  <2> HIDE DEF s, N
  <2>4. \A i \in 1..(N + 1) : i = 1 \/ (i - 1 \in 1..N /\ n.free[i] = s[i - 1])
    <3> TAKE i \in 1..(N + 1)
    <3>1. i = 1 \/ (i - 1 \in 1..N /\ (i - 1) + 1 = i)
      BY <2>1
    <3> QED
      BY <2>1, <3>1
  <2>5. IsInjective(n.free)
    <3> SUFFICES ASSUME NEW i \in 1..(N + 1), NEW j \in 1..(N + 1), n.free[i] = n.free[j]
                 PROVE  i = j
      BY <2>1 DEF IsInjective
    <3>1. CASE i = 1 \/ j = 1
      BY <2>1, <2>2, <2>3, <2>4, <3>1
    <3>2. CASE i # 1 /\ j # 1
      <4>1. i - 1 \in DOMAIN s /\ j - 1 \in DOMAIN s /\ s[i - 1] = s[j - 1]
        BY <2>1, <2>4, <3>2
      <4>2. i - 1 = j - 1
        BY <1>6, <4>1 DEF IsInjective, s
      <4> QED
        BY <2>1, <4>2
    <3> QED
      BY <3>1, <3>2
  <2>6. Range(n.free) = Range(s) \cup {p}
    <3>1. ASSUME NEW x \in Range(n.free) PROVE x \in Range(s) \cup {p}
      BY <2>1, <2>2, <2>4
    <3>2. ASSUME NEW x \in Range(s) PROVE x \in Range(n.free)
      <4>1. PICK i \in 1..N : x = s[i]
        BY <2>2
      <4>2. i + 1 \in 1..(N + 1) /\ x = n.free[i + 1]
        BY <2>1, <4>1
      <4> QED
        BY <2>2, <4>2
    <3>3. p \in Range(n.free)
      BY <2>1, <2>2
    <3> QED
      BY <3>1, <3>2, <3>3
  <2>7. {q \in Pages : n.pp_ref[q] = 0} = {q \in Pages : mm.pp_ref[q] = 0} \cup {p}
    BY <1>1, <1>7 DEF Dropped
  <2>8. Range(n.free) = {q \in Pages : n.pp_ref[q] = 0} \ H
    BY <1>5, <1>6, <2>6, <2>7 DEF s
  <2> QED
    BY <1>2, <1>3, <1>4, <1>5, <2>5, <2>8 DEF FreeList
<1>8. CASE mm.pp_ref[p] # 1
  <2>1. n.free = mm.free
    BY <1>8 DEF Dropped
  <2>2. {q \in Pages : n.pp_ref[q] = 0} = {q \in Pages : mm.pp_ref[q] = 0}
    BY <1>1, <1>8 DEF Dropped
  <2> QED
    BY <1>2, <1>3, <1>4, <1>5, <1>6, <2>1, <2>2 DEF FreeList
<1> QED
  BY <1>7, <1>8

LEMMA Take ==
  ASSUME NEW mm \in Memories, NEW n, NEW H, NEW p \in Pages,
         Counts(mm), FreeList(mm, H), p \in H \/ mm.pp_ref[p] # 0,
         n.pp_ref = [mm.pp_ref EXCEPT ![p] = @ + 1], n.free = mm.free,
         \A q \in Pages : References(n, q) = References(mm, q) + One(q = p)
  PROVE  Counts(n) /\ FreeList(n, H \ {p}) /\ n.pp_ref \in [Pages -> Nat]
<1>1. mm.pp_ref \in [Pages -> Nat] /\ n.pp_ref \in [Pages -> Nat]
  BY Fields
<1>2. Counts(n)
  <2> SUFFICES ASSUME NEW q \in Pages PROVE n.pp_ref[q] = References(n, q)
    BY DEF Counts
  <2>1. mm.pp_ref[q] = References(mm, q) /\ mm.pp_ref[q] \in Nat
    BY <1>1 DEF Counts
  <2>2. n.pp_ref[q] = IF q = p THEN mm.pp_ref[q] + 1 ELSE mm.pp_ref[q]
    BY <1>1
  <2> QED
    BY <2>1, <2>2 DEF One
<1>3. {q \in Pages : n.pp_ref[q] = 0} = {q \in Pages : mm.pp_ref[q] = 0} \ {p}
  BY <1>1
<1>4. Range(n.free) = {q \in Pages : n.pp_ref[q] = 0} \ (H \ {p})
  BY <1>3 DEF FreeList
<1>5. \A q \in H \ {p} : q \in Pages /\ n.pp_ref[q] = 0
  BY <1>1 DEF FreeList
<1> QED
  BY <1>1, <1>2, <1>4, <1>5 DEF FreeList

----------------------------------------------------------------------------
(* kern/pmap.c *)

(* The memory of the pages in use is kept. *)
Kept(mm, n) == \A q \in Pages : mm.pp_ref[q] # 0 => n.mem[q] = mm.mem[q]

LEMMA AllocSound ==
  ASSUME NEW mm, NEW H, Sound(mm, H), mm.free # <<>>
  PROVE  LET p == page_alloc(mm).p
             n == page_alloc(mm).m
         IN /\ page_alloc(mm).r /\ p \in Pages /\ p \notin H /\ mm.pp_ref[p] = 0
            /\ Sound(n, H \cup {p}) /\ Kept(mm, n) /\ n.mem[p] = Clear
            /\ \A q \in H : n.mem[q] = mm.mem[q]
            /\ n.pte = mm.pte /\ n.pt = mm.pt /\ n.pgdir = mm.pgdir /\ n.tlb = mm.tlb
            /\ n.pp_ref = mm.pp_ref
<1> DEFINE s == mm.free
           N == Len(mm.free)
           p == page_alloc(mm).p
           n == page_alloc(mm).m
<1>1. mm \in Memories
  BY DEF Sound
<1>2. /\ s \in Seq(Pages) /\ N \in Nat /\ N # 0 /\ DOMAIN s = 1..N
      /\ Head(s) = s[1] /\ Tail(s) \in Seq(Pages) /\ Len(Tail(s)) = N - 1 /\ s[1] \in Pages
      /\ DOMAIN Tail(s) = 1..(N - 1) /\ \A i \in 1..(N - 1) : Tail(s)[i] = s[i + 1]
  BY <1>1, Fields
<1>3. /\ page_alloc(mm).r /\ p = s[1]
      /\ n = [mm EXCEPT !.free = Tail(s), !.mem[p] = Clear]
  BY <1>2 DEF page_alloc
<1>4. /\ n.pte = mm.pte /\ n.pt = mm.pt /\ n.pgdir = mm.pgdir /\ n.tlb = mm.tlb
      /\ n.pp_ref = mm.pp_ref /\ n.panic = mm.panic /\ n.free = Tail(s)
      /\ n.mem = [mm.mem EXCEPT ![p] = Clear]
  BY <1>1, <1>3 DEF Memories
<1>5. n \in Memories
  <2>1. [mm.mem EXCEPT ![p] = Clear] \in [Pages -> [Halves -> {0} \cup Stores]]
    BY <1>1, Fields, PteFacts
  <2>2. n = [mm EXCEPT !.free = Tail(s), !.mem = [mm.mem EXCEPT ![p] = Clear]]
    BY <1>3
  <2> QED
    BY <1>1, <1>2, <2>1, <2>2 DEF Memories
<1> HIDE DEF s, N, p, n
<1>6. /\ IsInjective(s) /\ Range(s) = {q \in Pages : mm.pp_ref[q] = 0} \ H
      /\ \A q \in H : q \in Pages /\ mm.pp_ref[q] = 0
  BY DEF Sound, FreeList, s
<1>7. \A i, j \in 1..N : s[i] = s[j] => i = j
  BY <1>2, <1>6 DEF IsInjective
<1>8. p \in Range(s)
  BY <1>2, <1>3 DEF Range
<1>9. IsInjective(Tail(s))
  <2> SUFFICES ASSUME NEW i \in 1..(N - 1), NEW j \in 1..(N - 1), Tail(s)[i] = Tail(s)[j]
               PROVE  i = j
    BY <1>2 DEF IsInjective
  <2>1. i + 1 \in 1..N /\ j + 1 \in 1..N /\ s[i + 1] = s[j + 1]
    BY <1>2
  <2>2. i + 1 = j + 1
    BY <1>7, <2>1
  <2> QED
    BY <1>2, <2>2
<1>10. Range(Tail(s)) = Range(s) \ {p}
  <2>1. Range(s) = {s[i] : i \in 1..N} /\ Range(Tail(s)) = {Tail(s)[i] : i \in 1..(N - 1)}
    BY <1>2 DEF Range
  <2>2. ASSUME NEW x \in Range(Tail(s)) PROVE x \in Range(s) \ {p}
    <3>1. PICK i \in 1..(N - 1) : x = Tail(s)[i]
      BY <2>1
    <3>2. i + 1 \in 1..N /\ x = s[i + 1] /\ i + 1 # 1 /\ 1 \in 1..N
      BY <1>2, <3>1
    <3> QED
      BY <1>3, <1>7, <2>1, <3>2
  <2>3. ASSUME NEW x \in Range(s), x # p PROVE x \in Range(Tail(s))
    <3>1. PICK i \in 1..N : x = s[i]
      BY <2>1
    <3>2. i - 1 \in 1..(N - 1) /\ x = Tail(s)[i - 1]
      <4>1. i # 1
        BY <1>3, <2>3, <3>1
      <4>2. i - 1 \in 1..(N - 1) /\ (i - 1) + 1 = i
        BY <1>2, <4>1
      <4> QED
        BY <1>2, <3>1, <4>2
    <3> QED
      BY <2>1, <3>2
  <2> QED
    BY <2>2, <2>3
<1>11. FreeList(n, H \cup {p})
  BY <1>2, <1>3, <1>4, <1>6, <1>8, <1>9, <1>10 DEF FreeList
<1>12. Counts(n)
  BY <1>4 DEF Sound, Counts, References
<1>13. Coherent(n) /\ Tabled(n) /\ ~n.panic
  BY <1>4 DEF Sound, Coherent, Tabled, Unmapped
<1>14. p \in Pages /\ p \notin H /\ mm.pp_ref[p] = 0
  BY <1>6, <1>8
<1>15. Kept(mm, n) /\ n.mem[p] = Clear /\ \A q \in H : n.mem[q] = mm.mem[q]
  BY <1>1, <1>4, <1>6, <1>14, Fields DEF Kept
<1>16. Sound(n, H \cup {p})
  BY <1>5, <1>11, <1>12, <1>13 DEF Sound
<1> QED
  BY <1>3, <1>4, <1>14, <1>15, <1>16 DEF n, p

LEMMA InvalidateSound ==
  ASSUME NEW mm, NEW H, Sound(mm, H), NEW e \in Envs, NEW x \in Addr \cup Tables
  PROVE  LET n == tlb_invalidate(mm, e, x)
         IN /\ Sound(n, H) /\ n.mem = mm.mem /\ n.pp_ref = mm.pp_ref /\ n.free = mm.free
            /\ n.pte = mm.pte /\ n.pt = mm.pt /\ n.pgdir = mm.pgdir
<1> DEFINE n == tlb_invalidate(mm, e, x)
<1>1. mm \in Memories
  BY DEF Sound
<1>2. /\ n.mem = mm.mem /\ n.pp_ref = mm.pp_ref /\ n.free = mm.free /\ n.panic = mm.panic
      /\ n.pte = mm.pte /\ n.pt = mm.pt /\ n.pgdir = mm.pgdir
      /\ n.tlb = [mm.tlb EXCEPT ![e][x] = Absent]
  BY <1>1 DEF Memories, tlb_invalidate
<1>3. n \in Memories
  BY <1>1 DEF Memories, tlb_invalidate
<1> HIDE DEF n
<1>4. mm.tlb \in [Envs -> [Addr \cup Tables -> Ptes \cup {Absent}]]
  BY <1>1, Fields
<1>5. Coherent(n)
  <2>1. \A f \in Envs, y \in Addr \cup Tables : n.tlb[f][y] = Absent \/ n.tlb[f][y] = mm.tlb[f][y]
    BY <1>2, <1>4
  <2> QED
    BY <1>2, <2>1 DEF Sound, Coherent
<1>6. Counts(n) /\ FreeList(n, H) /\ Tabled(n) /\ ~n.panic
  BY <1>2 DEF Sound, Counts, References, FreeList, Tabled, Unmapped
<1> QED
  BY <1>2, <1>3, <1>5, <1>6 DEF Sound, n

(* page_decref of a page that is in use. *)
LEMMA DecrefIs ==
  ASSUME NEW mm \in Memories, NEW p \in Pages, mm.pp_ref[p] # 0
  PROVE  LET n == page_decref(mm, p)
         IN /\ n \in Memories /\ Dropped(mm, n, p)
            /\ n.mem = mm.mem /\ n.pte = mm.pte /\ n.pt = mm.pt /\ n.pgdir = mm.pgdir
            /\ n.tlb = mm.tlb /\ n.panic = mm.panic
<1> DEFINE n == page_decref(mm, p)
           less == [mm EXCEPT !.pp_ref[p] = @ - 1]
<1>1. mm.pp_ref \in [Pages -> Nat] /\ mm.free \in Seq(Pages)
  BY Fields
<1>2. /\ less \in Memories /\ less.pp_ref = [mm.pp_ref EXCEPT ![p] = @ - 1]
      /\ less.free = mm.free /\ less.mem = mm.mem /\ less.pte = mm.pte /\ less.pt = mm.pt
      /\ less.pgdir = mm.pgdir /\ less.tlb = mm.tlb /\ less.panic = mm.panic
  <2>1. [mm.pp_ref EXCEPT ![p] = @ - 1] \in [Pages -> Nat]
    BY <1>1
  <2>2. less = [mm EXCEPT !.pp_ref = [mm.pp_ref EXCEPT ![p] = @ - 1]]
    OBVIOUS
  <2> HIDE DEF less
  <2> QED
    BY <2>1, <2>2 DEF Memories
<1>3. less.pp_ref[p] = mm.pp_ref[p] - 1 /\ mm.pp_ref[p] \in Nat
  BY <1>1, <1>2
<1>4. n = IF less.pp_ref[p] = 0 THEN page_free(less, p) ELSE less
  BY DEF page_decref
<1> HIDE DEF less, n
<1>5. CASE mm.pp_ref[p] = 1
  <2>1. n = [less EXCEPT !.free = <<p>> \o @]
    BY <1>3, <1>4, <1>5 DEF page_free
  <2>2. less.free \in Seq(Pages) /\ <<p>> \o less.free \in Seq(Pages)
    BY <1>1, <1>2
  <2>3. n \in Memories
    BY <1>2, <2>1, <2>2 DEF Memories
  <2> QED
    BY <1>2, <1>5, <2>1, <2>3 DEF Dropped, Memories, n
<1>6. CASE mm.pp_ref[p] # 1
  <2>1. n = less
    BY <1>3, <1>4, <1>6
  <2> QED
    BY <1>2, <1>6, <2>1 DEF Dropped, n
<1> QED
  BY <1>5, <1>6

LEMMA RemoveSound ==
  ASSUME NEW mm, NEW H, Sound(mm, H), NEW e \in Envs, NEW va \in Addr
  PROVE  LET n == page_remove(mm, e, va)
         IN /\ Sound(n, H) /\ PteSet(mm, n, e, va, NoPte)
            /\ n.mem = mm.mem /\ n.pt = mm.pt /\ n.pgdir = mm.pgdir
            /\ \A q \in Pages : q # mm.pte[e][va].page => n.pp_ref[q] = mm.pp_ref[q]
            /\ mm.pte[e][va].page = 0 => n = mm
<1> DEFINE p == mm.pte[e][va].page
           d == page_decref(mm, p)
           u == [d EXCEPT !.pte[e][va] = NoPte]
           n == page_remove(mm, e, va)
<1>1. mm \in Memories
  BY DEF Sound
<1>2. CASE p = 0
  <2>1. n = mm
    BY <1>2 DEF page_remove, page_lookup
  <2>2. mm.pte[e][va] = NoPte
    BY <1>2 DEF Sound, Tabled, Unmapped
  <2> QED
    BY <2>1, <2>2 DEF PteSet
<1>3. CASE p # 0
  <2>1. p \in Pages /\ mm.pp_ref[p] # 0
    BY <1>3, InUse
  <2>2. n = tlb_invalidate(u, e, va)
    BY <1>3 DEF page_remove, page_lookup
  <2>3. /\ d \in Memories /\ Dropped(mm, d, p)
        /\ d.mem = mm.mem /\ d.pte = mm.pte /\ d.pt = mm.pt /\ d.pgdir = mm.pgdir
        /\ d.tlb = mm.tlb /\ d.panic = mm.panic
    BY <1>1, <2>1, DecrefIs
  <2> HIDE DEF d
  <2>4. mm.pte \in [Envs -> [Addr -> Ptes]] /\ mm.pp_ref \in [Pages -> Nat]
        /\ mm.tlb \in [Envs -> [Addr \cup Tables -> Ptes \cup {Absent}]]
    BY <1>1, Fields
  <2> DEFINE T == [mm.pte EXCEPT ![e][va] = NoPte]
             B == [mm.tlb EXCEPT ![e][va] = Absent]
  <2>5. T \in [Envs -> [Addr -> Ptes]] /\ B \in [Envs -> [Addr \cup Tables -> Ptes \cup {Absent}]]
    BY <2>4, PteFacts
  <2>6. n = [d EXCEPT !.pte = T, !.tlb = B]
    BY <1>1, <2>2, <2>3 DEF tlb_invalidate, Memories
  <2>7. /\ \A f \in Envs, vb \in Addr : T[f][vb] = IF f = e /\ vb = va THEN NoPte ELSE mm.pte[f][vb]
        /\ \A f \in Envs, x \in Addr \cup Tables : B[f][x] = IF f = e /\ x = va THEN Absent ELSE mm.tlb[f][x]
    BY <2>4
  <2> HIDE DEF T, B, n
  <2>8. n \in Memories
    BY <2>3, <2>5, <2>6 DEF Memories
  <2>9. /\ n.pte = T /\ n.tlb = B /\ n.mem = mm.mem /\ n.pt = mm.pt /\ n.pgdir = mm.pgdir
        /\ n.panic = mm.panic /\ n.pp_ref = d.pp_ref /\ n.free = d.free
    BY <2>3, <2>6 DEF Memories
  <2>10. PteSet(mm, n, e, va, NoPte)
    BY <2>7, <2>9 DEF PteSet
  <2>11. Dropped(mm, n, p)
    BY <2>3, <2>9 DEF Dropped
  <2>12. \A q \in Pages : References(n, q) + One(q = p) = References(mm, q)
    <3> TAKE q \in Pages
    <3>1. References(n, q) + One(mm.pte[e][va].page = q) = References(mm, q) + One(NoPte.page = q)
      BY <2>9, <2>10, PteRefs
    <3>2. NoPte.page # q
      BY PteFacts, SizeFacts
    <3>3. References(mm, q) \in Nat
      BY RefSets
    <3> QED
      BY <3>1, <3>2, <3>3 DEF One
  <2>13. Counts(n) /\ FreeList(n, H)
    BY <1>1, <2>1, <2>11, <2>12, Drop DEF Sound
  <2>14. Coherent(n)
    <3>1. Coherent(mm) /\ va \notin Tables
      BY AddrFacts DEF Sound
    <3>2. ASSUME NEW f \in Envs, NEW vb \in Addr PROVE n.tlb[f][vb] \in {Absent, n.pte[f][vb]}
      BY <2>7, <2>9, <3>1 DEF Coherent
    <3>3. ASSUME NEW f \in Envs, NEW t \in Tables PROVE n.tlb[f][t] = mm.tlb[f][t] /\ n.pt[f][t] = mm.pt[f][t]
      BY <2>7, <2>9, <3>1
    <3> QED
      BY <3>1, <3>2, <3>3 DEF Coherent
  <2>15. Tabled(n)
    BY <2>7, <2>9 DEF Sound, Tabled, Unmapped
  <2>16. Sound(n, H)
    BY <2>8, <2>9, <2>13, <2>14, <2>15 DEF Sound
  <2>17. \A q \in Pages : q # p => n.pp_ref[q] = mm.pp_ref[q]
    BY <2>4, <2>11 DEF Dropped
  <2> QED
    BY <1>3, <2>9, <2>10, <2>16, <2>17 DEF n
<1> QED
  BY <1>2, <1>3

(* There is a page left: the pages in use are named by the mappings, tables *)
(* and directories there can be.                                            *)
LEMMA FreeMemory ==
  ASSUME Enough, NEW mm, NEW H, Sound(mm, H),
         H = {} \/ ((\E x : H = {x}) /\ \E e \in Envs, t \in Tables : mm.pt[e][t] = 0)
  PROVE  mm.free # <<>>
<1> SUFFICES ASSUME mm.free = <<>> PROVE FALSE
  OBVIOUS
<1>1. mm \in Memories
  BY DEF Sound
<1>2. NPAGE \in Nat /\ Pages = 1..NPAGE /\ IsFiniteSet(Pages) /\ Cardinality(Pages) = NPAGE
  BY SizeFacts
<1>3. \A p \in Pages : p \in H \/ References(mm, p) # 0
  <2>1. Range(mm.free) = {}
    BY DEF Range
  <2> QED
    BY <2>1 DEF Sound, FreeList, Counts
<1> DEFINE Slots == Envs \X (Addr \cup Tables)
           f == [x \in Slots |-> IF x[2] \in Addr THEN mm.pte[x[1]][x[2]].page ELSE mm.pt[x[1]][x[2]]]
           A == {f[x] : x \in Slots}
           g == [e \in Envs |-> mm.pgdir[e]]
           B == {g[e] : e \in Envs}
<1>4. IsFiniteSet(Addr \cup Tables) /\ Cardinality(Addr \cup Tables) = Cardinality(Addr) + 2
  <2>1. Addr \cap Tables = {}
    BY AddrFacts
  <2>2. Cardinality(Addr \cap Tables) = 0
    BY <2>1, FS_EmptySet
  <2>3. IsFiniteSet(Addr \cup Tables)
    BY SizeFacts, FS_Union
  <2>4. Cardinality(Addr \cup Tables) = Cardinality(Addr) + Cardinality(Tables) - Cardinality(Addr \cap Tables)
    BY SizeFacts, FS_Union
  <2> QED
    BY <2>2, <2>3, <2>4, SizeFacts
<1>5. IsFiniteSet(Slots) /\ Cardinality(Slots) = NENV * (Cardinality(Addr) + 2)
  <2> DEFINE S == Addr \cup Tables
  <2> HIDE DEF S
  <2>1. IsFiniteSet(S) /\ Cardinality(S) = Cardinality(Addr) + 2
    BY <1>4 DEF S
  <2>2. IsFiniteSet(Envs \X S) /\ Cardinality(Envs \X S) = Cardinality(Envs) * Cardinality(S)
    BY <2>1, SizeFacts, FS_Product
  <2>3. Cardinality(Envs) = NENV
    BY SizeFacts
  <2> QED
    BY <2>1, <2>2, <2>3 DEF S
<1>6. IsFiniteSet(A) /\ Cardinality(A) <= Cardinality(Slots)
  <2>1. f \in Surjection(Slots, A)
    BY DEF Surjection
  <2> HIDE DEF f, A, Slots
  <2> QED
    BY <1>5, <2>1, FS_Surjection
<1>7. IsFiniteSet(B) /\ Cardinality(B) <= NENV
  <2>1. g \in Surjection(Envs, B)
    BY DEF Surjection
  <2> HIDE DEF g, B
  <2> QED
    BY <2>1, SizeFacts, FS_Surjection
<1> DEFINE C == A \cup B
<1>8. \A p : References(mm, p) # 0 => p \in C
  <2> SUFFICES ASSUME NEW p, p \notin C PROVE References(mm, p) = 0
    OBVIOUS
  <2>1. \A e \in Envs, va \in Addr : mm.pte[e][va].page # p
    <3> SUFFICES ASSUME NEW e \in Envs, NEW va \in Addr PROVE mm.pte[e][va].page \in A
      OBVIOUS
    <3>1. <<e, va>> \in Slots /\ f[<<e, va>>] = mm.pte[e][va].page
      OBVIOUS
    <3> HIDE DEF f, Slots
    <3> QED
      BY <3>1
  <2>2. \A e \in Envs, t \in Tables : mm.pt[e][t] # p
    <3> SUFFICES ASSUME NEW e \in Envs, NEW t \in Tables PROVE mm.pt[e][t] \in A
      OBVIOUS
    <3>1. t \notin Addr
      BY AddrFacts
    <3>2. <<e, t>> \in Slots /\ f[<<e, t>>] = mm.pt[e][t]
      BY <3>1
    <3> HIDE DEF f, Slots
    <3> QED
      BY <3>2
  <2>3. \A e \in Envs : mm.pgdir[e] # p
    OBVIOUS
  <2>4. MapRefs(mm, p) = {} /\ TableRefs(mm, p) = {} /\ DirRefs(mm, p) = {}
    BY <2>1, <2>2, <2>3 DEF MapRefs, TableRefs, DirRefs
  <2> HIDE DEF A, B, C, f, g, Slots
  <2>5. References(mm, p) = Cardinality(MapRefs(mm, p)) + Cardinality(TableRefs(mm, p))
                              + Cardinality(DirRefs(mm, p))
    BY RefSets
  <2>6. Cardinality({}) = 0
    BY FS_EmptySet
  <2>7. References(mm, p) = Cardinality({}) + Cardinality({}) + Cardinality({})
    BY <2>4, <2>5
  <2> QED
    BY <2>6, <2>7
<1>9. \A e \in Envs, t \in Tables : mm.pt[e][t] \in C
  <2> SUFFICES ASSUME NEW e \in Envs, NEW t \in Tables PROVE mm.pt[e][t] \in A
    OBVIOUS
  <2>1. t \notin Addr
    BY AddrFacts
  <2>2. <<e, t>> \in Slots /\ f[<<e, t>>] = mm.pt[e][t]
    BY <2>1
  <2> HIDE DEF f, Slots
  <2> QED
    BY <2>2
<1> HIDE DEF A, B, Slots, f, g
<1>10. IsFiniteSet(C) /\ Cardinality(C) \in Nat /\ Cardinality(C) < NPAGE
  <2> DEFINE a == Cardinality(Addr)
  <2>1. /\ IsFiniteSet(C) /\ Cardinality(C) = Cardinality(A) + Cardinality(B) - Cardinality(A \cap B)
        /\ Cardinality(A \cap B) \in Nat /\ Cardinality(A) \in Nat /\ Cardinality(B) \in Nat
        /\ Cardinality(C) \in Nat
    BY <1>6, <1>7, FS_Union, FS_CardinalityType, FS_Intersection
  <2>2. NENV \in Nat /\ a \in Nat /\ NPAGE > NENV * (a + 3)
    BY SizeFacts DEF Enough
  <2> HIDE DEF C, a
  <2>3. Cardinality(A) <= NENV * (a + 2)
    BY <1>5, <1>6 DEF a
  <2>4. NENV * (a + 3) = NENV * (a + 2) + NENV
    BY <2>2
  <2>5. NENV * (a + 2) \in Nat
    BY <2>2
  <2> QED
    BY <1>2, <1>7, <2>1, <2>2, <2>3, <2>4, <2>5
<1> HIDE DEF C
<1>11. CASE H = {}
  <2>1. Pages \subseteq C
    BY <1>3, <1>8, <1>11
  <2> QED
    BY <1>2, <1>10, <2>1, FS_Subset
<1>12. CASE (\E x : H = {x}) /\ \E e \in Envs, t \in Tables : mm.pt[e][t] = 0
  <2>1. PICK x : H = {x}
    BY <1>12
  <2>2. 0 \in C
    BY <1>9, <1>12
  <2>3. Pages \ {x} \subseteq C \ {0}
    BY <1>2, <1>3, <1>8, <2>1
  <2>4. x \in Pages
    BY <2>1 DEF Sound, FreeList
  <2>5. IsFiniteSet(Pages \ {x}) /\ Cardinality(Pages \ {x}) = NPAGE - 1
    <3>1. IsFiniteSet(Pages) /\ Cardinality(Pages) = NPAGE
      BY <1>2
    <3> QED
      BY <2>4, <3>1, FS_RemoveElement
  <2>6. IsFiniteSet(C \ {0}) /\ Cardinality(C \ {0}) = Cardinality(C) - 1
    BY <1>10, <2>2, FS_RemoveElement
  <2>7. Cardinality(Pages \ {x}) <= Cardinality(C \ {0})
    BY <2>3, <2>5, <2>6, FS_Subset
  <2> QED
    BY <1>2, <1>10, <2>5, <2>6, <2>7
<1> QED
  BY <1>11, <1>12

(* The tables of the others are theirs. *)
OthersTables(mm, n, e) == \A f \in Envs, t \in Tables : f # e => n.pt[f][t] = mm.pt[f][t]

LEMMA WalkSound ==
  ASSUME NEW mm, NEW H, Sound(mm, H), NEW e \in Envs, NEW t \in Tables,
         mm.pt[e][t] = 0 => mm.free # <<>>
  PROVE  LET n == pgdir_walk(mm, e, t).m
         IN /\ pgdir_walk(mm, e, t).r /\ Sound(n, H) /\ n.pt[e][t] # 0 /\ OthersTables(mm, n, e)
            /\ n.pte = mm.pte /\ n.pgdir = mm.pgdir /\ n.tlb = mm.tlb /\ Kept(mm, n)
            /\ \A q \in H : n.mem[q] = mm.mem[q]
            /\ \A q \in Pages : q \in H \/ mm.pp_ref[q] # 0 => n.pp_ref[q] = mm.pp_ref[q]
            /\ mm.pt[e][t] # 0 => n = mm
<1> DEFINE n == pgdir_walk(mm, e, t).m
<1>1. CASE mm.pt[e][t] # 0
  <2>1. pgdir_walk(mm, e, t) = [r |-> TRUE, m |-> mm]
    BY <1>1 DEF pgdir_walk
  <2> QED
    BY <1>1, <2>1 DEF OthersTables, Kept
<1>2. CASE mm.pt[e][t] = 0
  <2> DEFINE p == page_alloc(mm).p
             a == page_alloc(mm).m
  <2>1. /\ page_alloc(mm).r /\ p \in Pages /\ p \notin H /\ mm.pp_ref[p] = 0
        /\ Sound(a, H \cup {p}) /\ Kept(mm, a)
        /\ \A q \in H : a.mem[q] = mm.mem[q]
        /\ a.pte = mm.pte /\ a.pt = mm.pt /\ a.pgdir = mm.pgdir /\ a.tlb = mm.tlb
        /\ a.pp_ref = mm.pp_ref
    BY <1>2, AllocSound
  <2>2. /\ pgdir_walk(mm, e, t).r
        /\ n = [a EXCEPT !.pp_ref[p] = 1, !.pt[e][t] = p]
    BY <1>2, <2>1 DEF pgdir_walk
  <2> HIDE DEF p, a, n
  <2>3. a \in Memories
    BY <2>1 DEF Sound
  <2> DEFINE R == [mm.pp_ref EXCEPT ![p] = 1]
             T == [mm.pt EXCEPT ![e][t] = p]
  <2>4. /\ mm.pp_ref \in [Pages -> Nat] /\ mm.pt \in [Envs -> [Tables -> 0..NPAGE]]
        /\ p \in 0..NPAGE
    <3>1. mm \in Memories /\ NPAGE \in Nat /\ Pages = 1..NPAGE
      BY SizeFacts DEF Sound
    <3> QED
      BY <2>1, <3>1, Fields
  <2>5. /\ R \in [Pages -> Nat] /\ T \in [Envs -> [Tables -> 0..NPAGE]]
        /\ \A q \in Pages : R[q] = IF q = p THEN 1 ELSE mm.pp_ref[q]
        /\ \A f \in Envs, u \in Tables : T[f][u] = IF f = e /\ u = t THEN p ELSE mm.pt[f][u]
    BY <2>1, <2>4
  <2>6. n = [a EXCEPT !.pp_ref = R, !.pt = T]
    BY <2>1, <2>2
  <2> HIDE DEF R, T
  <2>7. n \in Memories
    BY <2>3, <2>5, <2>6 DEF Memories
  <2>8. /\ n.pte = mm.pte /\ n.tlb = mm.tlb /\ n.mem = a.mem /\ n.pt = T /\ n.pgdir = mm.pgdir
        /\ n.panic = a.panic /\ n.pp_ref = R /\ n.free = a.free
    BY <2>1, <2>3, <2>6 DEF Memories
  <2>9. PtSet(a, n, e, t, p)
    BY <2>1, <2>5, <2>8 DEF PtSet
  <2>10. \A q \in Pages : References(n, q) = References(a, q) + One(q = p)
    <3> TAKE q \in Pages
    <3>0. n.pte = a.pte /\ n.pgdir = a.pgdir
      BY <2>1, <2>8
    <3>1. References(n, q) + One(a.pt[e][t] = q) = References(a, q) + One(p = q)
      BY <2>9, <3>0, PtRefs
    <3>2. a.pt[e][t] # q
      BY <1>2, <2>1, SizeFacts
    <3>3. References(n, q) \in Nat
      BY RefSets
    <3> QED
      BY <3>1, <3>2, <3>3 DEF One
  <2>11. Counts(n) /\ FreeList(n, (H \cup {p}) \ {p})
    <3>1. n.pp_ref = [a.pp_ref EXCEPT ![p] = @ + 1] /\ n.free = a.free
      BY <2>1, <2>4, <2>8 DEF R
    <3>2. p \in H \cup {p} /\ Counts(a) /\ FreeList(a, H \cup {p})
      BY <2>1 DEF Sound
    <3> QED
      BY <2>1, <2>3, <2>10, <3>1, <3>2, Take
  <2>12. (H \cup {p}) \ {p} = H
    BY <2>1
  <2>13. Coherent(n)
    <3>1. Coherent(mm)
      BY DEF Sound
    <3> QED
      BY <1>2, <2>5, <2>8, <3>1 DEF Coherent
  <2>14. Tabled(n)
    <3>1. Tabled(mm) /\ \A f \in Envs, u \in Tables : n.pt[f][u] = 0 => mm.pt[f][u] = 0
      BY <1>2, <2>5, <2>8 DEF Sound
    <3>2. \A va \in Addr : PDX(va) \in Tables
      BY AddrFacts
    <3> QED
      BY <2>8, <3>1, <3>2 DEF Tabled, Unmapped
  <2>15. Sound(n, H)
    BY <2>1, <2>7, <2>8, <2>11, <2>12, <2>13, <2>14 DEF Sound
  <2>16. n.pt[e][t] # 0 /\ OthersTables(mm, n, e)
    BY <2>1, <2>5, <2>8, SizeFacts DEF OthersTables
  <2>17. Kept(mm, n) /\ \A q \in H : n.mem[q] = mm.mem[q]
    BY <2>1, <2>8 DEF Kept
  <2>18. \A q \in Pages : q \in H \/ mm.pp_ref[q] # 0 => n.pp_ref[q] = mm.pp_ref[q]
    BY <2>1, <2>5, <2>8
  <2> QED
    BY <1>2, <2>2, <2>8, <2>15, <2>16, <2>17, <2>18 DEF n
<1> QED
  BY <1>1, <1>2

(* page_insert of a page that was just allocated, or that is mapped. *)
LEMMA InsertSound ==
  ASSUME Enough, NEW mm, NEW H, Sound(mm, H), NEW e \in Envs, NEW va \in Addr,
         NEW p \in Pages, NEW perm \in Perms, H = {p} \/ (H = {} /\ mm.pp_ref[p] # 0)
  PROVE  LET n == page_insert(mm, e, p, va, perm).m
         IN /\ page_insert(mm, e, p, va, perm).r /\ Sound(n, {})
            /\ PteSet(mm, n, e, va, [page |-> p, perm |-> perm])
            /\ n.pgdir = mm.pgdir /\ OthersTables(mm, n, e)
            /\ Kept(mm, n) /\ n.mem[p] = mm.mem[p]
<1> DEFINE pte == [page |-> p, perm |-> perm]
           r == page_remove(mm, e, va)
           i == tlb_invalidate(r, e, va)
           w == pgdir_walk(i, e, PDX(va)).m
           v == tlb_invalidate(mm, e, va)
           n == page_insert(mm, e, p, va, perm).m
<1>1. mm \in Memories /\ PDX(va) \in Tables /\ va \notin Tables
  BY AddrFacts DEF Sound
<1>2. pte \in Ptes /\ pte.page = p /\ p # 0
  BY PteFacts, SizeFacts
<1>3. CASE mm.pte[e][va].page = p
  <2>1. H = {}
    BY <1>2, <1>3, InUse DEF Sound, FreeList
  <2>2. /\ page_insert(mm, e, p, va, perm).r
        /\ n = [v EXCEPT !.pte[e][va] = pte]
    BY <1>3 DEF page_insert, page_lookup
  <2>3. /\ v.mem = mm.mem /\ v.pp_ref = mm.pp_ref /\ v.free = mm.free /\ Sound(v, H)
        /\ v.pte = mm.pte /\ v.pt = mm.pt /\ v.pgdir = mm.pgdir
    BY InvalidateSound
  <2>4. v.tlb[e][va] = Absent
    BY <1>1 DEF tlb_invalidate, Memories
  <2> HIDE DEF v, n
  <2> DEFINE T == [mm.pte EXCEPT ![e][va] = pte]
  <2>5. v \in Memories
    BY <2>3 DEF Sound
  <2>6. /\ T \in [Envs -> [Addr -> Ptes]]
        /\ \A f \in Envs, vb \in Addr : T[f][vb] = IF f = e /\ vb = va THEN pte ELSE mm.pte[f][vb]
    <3>1. mm.pte \in [Envs -> [Addr -> Ptes]]
      BY <1>1, Fields
    <3> HIDE DEF pte
    <3> QED
      BY <1>2, <3>1
  <2>7. n = [v EXCEPT !.pte = T]
    BY <2>2, <2>3
  <2> HIDE DEF T, pte
  <2>8. n \in Memories
    BY <2>5, <2>6, <2>7 DEF Memories
  <2>9. /\ n.pte = T /\ n.tlb = v.tlb /\ n.mem = mm.mem /\ n.pt = mm.pt /\ n.pgdir = mm.pgdir
        /\ n.panic = v.panic /\ n.pp_ref = mm.pp_ref /\ n.free = mm.free
    BY <2>3, <2>5, <2>7 DEF Memories
  <2>10. PteSet(mm, n, e, va, pte)
    BY <2>6, <2>9 DEF PteSet
  <2>11. Counts(n)
    <3> SUFFICES ASSUME NEW q \in Pages PROVE n.pp_ref[q] = References(n, q)
      BY DEF Counts
    <3>1. References(n, q) + One(mm.pte[e][va].page = q) = References(mm, q) + One(pte.page = q)
      BY <2>9, <2>10, PteRefs
    <3>2. References(n, q) \in Nat /\ References(mm, q) \in Nat /\ mm.pp_ref[q] = References(mm, q)
      BY RefSets DEF Sound, Counts
    <3> QED
      BY <1>2, <1>3, <2>9, <3>1, <3>2 DEF One
  <2>12. FreeList(n, H)
    BY <2>9 DEF Sound, FreeList
  <2>13. Coherent(n)
    <3>1. Coherent(v)
      BY <2>3 DEF Sound
    <3>2. ASSUME NEW f \in Envs, NEW vb \in Addr PROVE n.tlb[f][vb] \in {Absent, n.pte[f][vb]}
      BY <2>3, <2>4, <2>6, <2>9, <3>1 DEF Coherent
    <3> QED
      BY <2>3, <2>9, <3>1, <3>2 DEF Coherent
  <2>14. Tabled(n)
    <3>1. Tabled(mm)
      BY DEF Sound
    <3>2. mm.pt[e][PDX(va)] # 0
      BY <1>2, <1>3, <3>1, PteFacts DEF Tabled, Unmapped
    <3> QED
      BY <1>2, <2>6, <2>9, <3>1, <3>2 DEF Tabled, Unmapped
  <2> QED
    BY <2>1, <2>2, <2>3, <2>8, <2>9, <2>10, <2>11, <2>12, <2>13, <2>14
    DEF Sound, OthersTables, Kept, pte, n
<1>4. CASE mm.pte[e][va].page # p
  <2>1. /\ Sound(r, H) /\ PteSet(mm, r, e, va, NoPte)
        /\ r.mem = mm.mem /\ r.pt = mm.pt /\ r.pgdir = mm.pgdir
        /\ \A q \in Pages : q # mm.pte[e][va].page => r.pp_ref[q] = mm.pp_ref[q]
        /\ mm.pte[e][va].page = 0 => r = mm
    BY RemoveSound
  <2> HIDE DEF r
  <2>2. /\ i.mem = mm.mem /\ i.pp_ref = r.pp_ref /\ i.free = r.free /\ Sound(i, H)
        /\ i.pte = r.pte /\ i.pt = mm.pt /\ i.pgdir = mm.pgdir
    BY <2>1, InvalidateSound
  <2>3. i.tlb[e][va] = Absent
    <3>1. r \in Memories
      BY <2>1 DEF Sound
    <3> QED
      BY <1>1, <3>1 DEF tlb_invalidate, Memories
  <2> HIDE DEF i
  <2>4. i.pt[e][PDX(va)] = 0 => i.free # <<>>
    BY <1>1, <2>2, FreeMemory
  <2>5. /\ pgdir_walk(i, e, PDX(va)).r /\ Sound(w, H) /\ w.pt[e][PDX(va)] # 0 /\ OthersTables(i, w, e)
        /\ w.pte = i.pte /\ w.pgdir = i.pgdir /\ w.tlb = i.tlb /\ Kept(i, w)
        /\ \A q \in H : w.mem[q] = i.mem[q]
        /\ \A q \in Pages : q \in H \/ i.pp_ref[q] # 0 => w.pp_ref[q] = i.pp_ref[q]
        /\ i.pt[e][PDX(va)] # 0 => w = i
    BY <1>1, <2>2, <2>4, WalkSound
  <2>6. /\ page_insert(mm, e, p, va, perm).r
        /\ n = [w EXCEPT !.pte[e][va] = pte, !.pp_ref[p] = @ + 1]
    BY <1>4, <2>5 DEF page_insert, page_lookup, i, r
  <2> HIDE DEF w, n, pte
  <2>7. w \in Memories
    BY <2>5 DEF Sound
  <2>8. w.pte \in [Envs -> [Addr -> Ptes]] /\ w.pp_ref \in [Pages -> Nat]
    BY <2>7, Fields
  <2> DEFINE T == [w.pte EXCEPT ![e][va] = pte]
             R == [w.pp_ref EXCEPT ![p] = @ + 1]
  <2>9. /\ T \in [Envs -> [Addr -> Ptes]] /\ R \in [Pages -> Nat]
        /\ \A f \in Envs, vb \in Addr : T[f][vb] = IF f = e /\ vb = va THEN pte ELSE w.pte[f][vb]
    BY <1>2, <2>8
  <2>10. n = [w EXCEPT !.pte = T, !.pp_ref = R]
    BY <2>6
  <2> HIDE DEF T, R
  <2>11. n \in Memories
    BY <2>7, <2>9, <2>10 DEF Memories
  <2>12. /\ n.pte = T /\ n.tlb = w.tlb /\ n.mem = w.mem /\ n.pt = w.pt /\ n.pgdir = mm.pgdir
         /\ n.panic = w.panic /\ n.pp_ref = R /\ n.free = w.free
    BY <2>2, <2>5, <2>7, <2>10 DEF Memories
  <2>13. PteSet(w, n, e, va, pte)
    BY <2>9, <2>12 DEF PteSet
  <2>14. w.pte[e][va] = NoPte
    BY <2>1, <2>2, <2>5 DEF PteSet
  <2>15. \A q \in Pages : References(n, q) = References(w, q) + One(q = p)
    <3> TAKE q \in Pages
    <3>1. References(n, q) + One(w.pte[e][va].page = q) = References(w, q) + One(pte.page = q)
      BY <2>5, <2>12, <2>13, <2>2, PteRefs
    <3>2. w.pte[e][va].page # q
      BY <2>14, PteFacts, SizeFacts
    <3>3. References(n, q) \in Nat
      BY RefSets
    <3> QED
      BY <1>2, <3>1, <3>2, <3>3 DEF One
  <2>16. p \in H \/ w.pp_ref[p] # 0
    BY <1>4, <2>1, <2>2, <2>5
  <2>17. Counts(n) /\ FreeList(n, H \ {p})
    <3>1. n.pp_ref = [w.pp_ref EXCEPT ![p] = @ + 1] /\ n.free = w.free
      BY <2>12 DEF R
    <3>2. Counts(w) /\ FreeList(w, H)
      BY <2>5 DEF Sound
    <3> QED
      BY <2>7, <2>15, <2>16, <3>1, <3>2, Take
  <2>18. H \ {p} = {}
    OBVIOUS
  <2>19. Coherent(n)
    <3>1. Coherent(w) /\ w.tlb[e][va] = Absent
      BY <2>3, <2>5 DEF Sound
    <3>2. ASSUME NEW f \in Envs, NEW vb \in Addr PROVE n.tlb[f][vb] \in {Absent, n.pte[f][vb]}
      BY <2>9, <2>12, <3>1 DEF Coherent
    <3> QED
      BY <2>12, <3>1, <3>2 DEF Coherent
  <2>20. Tabled(n)
    <3>1. Tabled(w)
      BY <2>5 DEF Sound
    <3> QED
      BY <1>2, <2>5, <2>9, <2>12, <3>1 DEF Tabled, Unmapped
  <2>21. Sound(n, {})
    BY <2>5, <2>11, <2>12, <2>17, <2>18, <2>19, <2>20 DEF Sound
  <2>22. PteSet(mm, n, e, va, pte)
    BY <2>1, <2>2, <2>5, <2>9, <2>12 DEF PteSet
  <2>23. Kept(mm, n) /\ n.mem[p] = mm.mem[p]
    <3>1. CASE mm.pt[e][PDX(va)] # 0
      BY <2>2, <2>5, <2>12, <3>1 DEF Kept
    <3>2. CASE mm.pt[e][PDX(va)] = 0
      <4>1. mm.pte[e][va].page = 0
        BY <3>2, PteFacts DEF Sound, Tabled, Unmapped
      <4>2. r = mm
        BY <2>1, <4>1
      <4> QED
        BY <2>2, <2>5, <2>12, <4>2 DEF Kept
    <3> QED
      BY <3>1, <3>2
  <2>24. OthersTables(mm, n, e)
    BY <2>2, <2>5, <2>12 DEF OthersTables
  <2> QED
    BY <2>6, <2>12, <2>21, <2>22, <2>23, <2>24 DEF n, pte
<1> QED
  BY <1>3, <1>4

(* What a call that changes at most one mapping leaves alone. *)
Alike(mm, n, e) == Kept(mm, n) /\ n.pgdir = mm.pgdir /\ OthersTables(mm, n, e)

Maps(mm, n, e, va, p, perm) ==
  Sound(n, {}) /\ PteSet(mm, n, e, va, [page |-> p, perm |-> perm]) /\ Alike(mm, n, e)

LEMMA MemAllocSound ==
  ASSUME Enough, NEW mm, Sound(mm, {}), NEW e \in Envs, NEW va \in Addr, NEW perm \in Perms
  PROVE  LET n == sys_mem_alloc(mm, e, va, perm)
         IN \E p \in Pages : mm.pp_ref[p] = 0 /\ Maps(mm, n, e, va, p, perm) /\ n.mem[p] = Clear
<1> DEFINE p == page_alloc(mm).p
           a == page_alloc(mm).m
           n == page_insert(a, e, p, va, perm).m
<1>1. mm.free # <<>>
  BY FreeMemory
<1>2. /\ page_alloc(mm).r /\ p \in Pages /\ mm.pp_ref[p] = 0
      /\ Sound(a, {} \cup {p}) /\ Kept(mm, a) /\ a.mem[p] = Clear
      /\ a.pte = mm.pte /\ a.pt = mm.pt /\ a.pgdir = mm.pgdir /\ a.pp_ref = mm.pp_ref
  BY <1>1, AllocSound
<1>3. sys_mem_alloc(mm, e, va, perm) = n
  BY <1>2 DEF sys_mem_alloc
<1> HIDE DEF p, a
<1>4. {} \cup {p} = {p}
  OBVIOUS
<1>5. /\ Sound(n, {}) /\ PteSet(a, n, e, va, [page |-> p, perm |-> perm])
      /\ n.pgdir = a.pgdir /\ OthersTables(a, n, e) /\ Kept(a, n) /\ n.mem[p] = a.mem[p]
  BY <1>2, <1>4, InsertSound
<1> HIDE DEF n
<1>6. Maps(mm, n, e, va, p, perm)
  BY <1>2, <1>5 DEF Maps, Alike, PteSet, OthersTables, Kept
<1> QED
  BY <1>2, <1>3, <1>5, <1>6

LEMMA MemMapSound ==
  ASSUME Enough, NEW mm, Sound(mm, {}), NEW e \in Envs, NEW srcva \in Addr,
         NEW t \in Envs, NEW dstva \in Addr, NEW perm \in Perms, mm.pte[e][srcva].page # 0
  PROVE  LET n == sys_mem_map(mm, e, srcva, t, dstva, perm)
         IN Maps(mm, n, t, dstva, mm.pte[e][srcva].page, perm)
<1> DEFINE p == mm.pte[e][srcva].page
           n == page_insert(mm, t, p, dstva, perm).m
<1>1. p \in Pages /\ mm.pp_ref[p] # 0
  BY InUse
<1>2. sys_mem_map(mm, e, srcva, t, dstva, perm) = n
  BY DEF sys_mem_map, page_lookup
<1>3. /\ Sound(n, {}) /\ PteSet(mm, n, t, dstva, [page |-> p, perm |-> perm])
      /\ n.pgdir = mm.pgdir /\ OthersTables(mm, n, t) /\ Kept(mm, n)
  BY <1>1, InsertSound
<1> QED
  BY <1>2, <1>3 DEF Maps, Alike

(* The TLB gets the entry that is in the page table. *)
LEMMA LoadSound ==
  ASSUME NEW mm, Sound(mm, {}), NEW e \in Envs, NEW va \in Addr
  PROVE  LET n == [mm EXCEPT !.tlb[e][va] = mm.pte[e][va]]
         IN /\ Sound(n, {}) /\ n.mem = mm.mem /\ n.pp_ref = mm.pp_ref
            /\ n.pte = mm.pte /\ n.pt = mm.pt /\ n.pgdir = mm.pgdir
<1> DEFINE B == [mm.tlb EXCEPT ![e][va] = mm.pte[e][va]]
           n == [mm EXCEPT !.tlb[e][va] = mm.pte[e][va]]
<1>1. mm \in Memories /\ va \notin Tables
  BY AddrFacts DEF Sound
<1>2. /\ mm.tlb \in [Envs -> [Addr \cup Tables -> Ptes \cup {Absent}]]
      /\ mm.pte[e][va] \in Ptes
  <2> HIDE DEF B, n
  <2>1. mm.pte \in [Envs -> [Addr -> Ptes]]
    BY <1>1, Fields
  <2>2. mm.tlb \in [Envs -> [Addr \cup Tables -> Ptes \cup {Absent}]]
    BY <1>1, Fields
  <2>3. mm.pte[e][va] \in Ptes
    BY <2>1
  <2> QED
    BY <2>2, <2>3
<1>3. /\ B \in [Envs -> [Addr \cup Tables -> Ptes \cup {Absent}]]
      /\ \A f \in Envs, x \in Addr \cup Tables :
           B[f][x] = IF f = e /\ x = va THEN mm.pte[e][va] ELSE mm.tlb[f][x]
  BY <1>2
<1>4. n = [mm EXCEPT !.tlb = B]
  OBVIOUS
<1> HIDE DEF B, n
<1>5. n \in Memories
  BY <1>1, <1>3, <1>4 DEF Memories
<1>6. /\ n.pte = mm.pte /\ n.tlb = B /\ n.mem = mm.mem /\ n.pt = mm.pt /\ n.pgdir = mm.pgdir
      /\ n.panic = mm.panic /\ n.pp_ref = mm.pp_ref /\ n.free = mm.free
  BY <1>1, <1>4 DEF Memories
<1>7. Coherent(n)
  <2>1. Coherent(mm)
    BY DEF Sound
  <2>2. ASSUME NEW f \in Envs, NEW vb \in Addr PROVE n.tlb[f][vb] \in {Absent, n.pte[f][vb]}
    BY <1>3, <1>6, <2>1 DEF Coherent
  <2>3. ASSUME NEW f \in Envs, NEW t \in Tables PROVE n.tlb[f][t] = mm.tlb[f][t]
    BY <1>1, <1>3, <1>6
  <2> QED
    BY <1>6, <2>1, <2>2, <2>3 DEF Coherent
<1>8. Counts(n) /\ FreeList(n, {}) /\ Tabled(n) /\ ~n.panic
  BY <1>6 DEF Sound, Counts, References, FreeList, Tabled, Unmapped
<1> QED
  BY <1>5, <1>6, <1>7, <1>8 DEF Sound, n

(* do_tlb_refill: the page is there, or a new one is mapped. *)
LEMMA RefillSound ==
  ASSUME Enough, NEW mm, Sound(mm, {}), NEW e \in Envs, NEW va \in Addr
  PROVE  LET n == _do_tlb_refill(mm, e, va)
         IN \/ Sound(n, {}) /\ n.pte = mm.pte /\ n.mem = mm.mem /\ Alike(mm, n, e)
            \/ /\ mm.pte[e][va].page = 0
               /\ \E p \in Pages : mm.pp_ref[p] = 0 /\ Maps(mm, n, e, va, p, {D}) /\ n.mem[p] = Clear
<1> DEFINE q == IF page_lookup(mm, e, va) = 0 THEN passive_alloc(mm, e, va) ELSE mm
           n == [q EXCEPT !.tlb[e][va] = q.pte[e][va]]
<1>1. _do_tlb_refill(mm, e, va) = n
  BY DEF _do_tlb_refill
<1>2. CASE mm.pte[e][va].page # 0
  <2>1. q = mm
    BY <1>2 DEF page_lookup
  <2> HIDE DEF q
  <2>2. /\ Sound(n, {}) /\ n.mem = mm.mem /\ n.pp_ref = mm.pp_ref
        /\ n.pte = mm.pte /\ n.pt = mm.pt /\ n.pgdir = mm.pgdir
    BY <2>1, LoadSound
  <2> QED
    BY <1>1, <2>2 DEF Alike, Kept, OthersTables
<1>3. CASE mm.pte[e][va].page = 0
  <2>0. PICK perm \in Perms : perm = {D}
    BY DEF Perms
  <2> DEFINE p == page_alloc(mm).p
             a == page_alloc(mm).m
             i == page_insert(a, e, p, va, perm)
  <2>1. mm.free # <<>>
    BY FreeMemory
  <2>2. /\ page_alloc(mm).r /\ p \in Pages /\ mm.pp_ref[p] = 0
        /\ Sound(a, {} \cup {p}) /\ Kept(mm, a) /\ a.mem[p] = Clear
        /\ a.pte = mm.pte /\ a.pt = mm.pt /\ a.pgdir = mm.pgdir /\ a.pp_ref = mm.pp_ref
    BY <2>1, AllocSound
  <2>3. q = [i.m EXCEPT !.panic = @ \/ ~i.r]
    BY <1>3, <2>0, <2>2 DEF passive_alloc, page_lookup
  <2> HIDE DEF p, a, q
  <2>4. {} \cup {p} = {p}
    OBVIOUS
  <2>5. /\ i.r /\ Sound(i.m, {}) /\ PteSet(a, i.m, e, va, [page |-> p, perm |-> perm])
        /\ i.m.pgdir = a.pgdir /\ OthersTables(a, i.m, e) /\ Kept(a, i.m) /\ i.m.mem[p] = a.mem[p]
    BY <2>1, <2>2, <2>4, InsertSound
  <2>6. q = i.m
    <3>1. i.m \in Memories /\ i.m.panic = FALSE
      BY <2>5, Fields DEF Sound
    <3> HIDE DEF i
    <3>2. q = [i.m EXCEPT !.panic = FALSE]
      BY <2>3, <2>5, <3>1
    <3> QED
      BY <3>1, <3>2 DEF Memories
  <2> HIDE DEF i
  <2>7. /\ Sound(n, {}) /\ n.mem = q.mem /\ n.pte = q.pte /\ n.pt = q.pt /\ n.pgdir = q.pgdir
    BY <2>5, <2>6, LoadSound
  <2> HIDE DEF n
  <2>8. Maps(mm, n, e, va, p, perm) /\ n.mem[p] = Clear
    <3>1. PteSet(mm, n, e, va, [page |-> p, perm |-> perm])
      BY <2>2, <2>5, <2>6, <2>7 DEF PteSet
    <3>2. Alike(mm, n, e) /\ n.mem[p] = Clear
      BY <2>2, <2>5, <2>6, <2>7 DEF Alike, OthersTables, Kept
    <3> QED
      BY <2>7, <3>1, <3>2 DEF Maps
  <2> QED
    BY <1>1, <1>3, <2>0, <2>2, <2>8
<1> QED
  BY <1>2, <1>3

LEMMA KsegSound ==
  ASSUME Enough, NEW mm, Sound(mm, {}), NEW e \in Envs, NEW t \in Tables
  PROVE  LET n == KsegMiss(mm, e, t)
         IN Sound(n, {}) /\ n.pte = mm.pte /\ Alike(mm, n, e)
<1> DEFINE w == pgdir_walk(mm, e, t).m
           n == KsegMiss(mm, e, t)
<1>1. CASE mm.tlb[e][t] # Absent
  <2>1. n = mm
    BY <1>1 DEF KsegMiss
  <2> QED
    BY <2>1 DEF Alike, Kept, OthersTables
<1>2. CASE mm.tlb[e][t] = Absent
  <2>1. mm.free # <<>>
    BY FreeMemory
  <2>2. /\ pgdir_walk(mm, e, t).r /\ Sound(w, {}) /\ w.pt[e][t] # 0 /\ OthersTables(mm, w, e)
        /\ w.pte = mm.pte /\ w.pgdir = mm.pgdir /\ w.tlb = mm.tlb /\ Kept(mm, w)
    BY <2>1, WalkSound
  <2> DEFINE x == [page |-> w.pt[e][t], perm |-> {D}]
             B == [w.tlb EXCEPT ![e][t] = x]
  <2>3. n = [w EXCEPT !.tlb = B]
    BY <1>2, <2>2 DEF KsegMiss
  <2> HIDE DEF w, n
  <2>4. w \in Memories
    BY <2>2 DEF Sound
  <2>5. x \in Ptes /\ x.page = w.pt[e][t]
    <3>1. w.pt[e][t] \in Pages /\ {D} \in Perms
      BY <2>2, InUse DEF Perms
    <3> QED
      BY <3>1, PteFacts
  <2> HIDE DEF x
  <2>6. /\ B \in [Envs -> [Addr \cup Tables -> Ptes \cup {Absent}]]
        /\ \A f \in Envs, y \in Addr \cup Tables :
             B[f][y] = IF f = e /\ y = t THEN x ELSE w.tlb[f][y]
    BY <2>4, <2>5, Fields
  <2> HIDE DEF B
  <2>7. n \in Memories
    BY <2>3, <2>4, <2>6 DEF Memories
  <2>8. /\ n.pte = w.pte /\ n.tlb = B /\ n.mem = w.mem /\ n.pt = w.pt /\ n.pgdir = w.pgdir
        /\ n.panic = w.panic /\ n.pp_ref = w.pp_ref /\ n.free = w.free
    BY <2>3, <2>4 DEF Memories
  <2>9. Coherent(n)
    <3>1. Coherent(w) /\ t \notin Addr
      BY <2>2, AddrFacts DEF Sound
    <3>2. ASSUME NEW f \in Envs, NEW vb \in Addr PROVE n.tlb[f][vb] = w.tlb[f][vb]
      BY <2>6, <2>8, <3>1
    <3>3. ASSUME NEW f \in Envs, NEW u \in Tables, n.tlb[f][u] # Absent
          PROVE  n.tlb[f][u].page = n.pt[f][u] /\ n.pt[f][u] # 0
      BY <2>2, <2>5, <2>6, <2>8, <3>1, <3>3 DEF Coherent
    <3> QED
      BY <2>8, <3>1, <3>2, <3>3 DEF Coherent
  <2>10. Counts(n) /\ FreeList(n, {}) /\ Tabled(n) /\ ~n.panic
    BY <2>2, <2>8 DEF Sound, Counts, References, FreeList, Tabled, Unmapped
  <2> QED
    BY <2>2, <2>7, <2>8, <2>9, <2>10 DEF Sound, Alike, Kept, OthersTables, n
<1> QED
  BY <1>1, <1>2

(* env_setup_vm for a slot that has nothing. *)
LEMMA SetupSound ==
  ASSUME Enough, NEW mm, Sound(mm, {}), NEW e \in Envs, mm.pgdir[e] = 0
  PROVE  LET n == env_setup_vm(mm, e)
         IN /\ Sound(n, {}) /\ Kept(mm, n) /\ n.pte = mm.pte /\ n.pt = mm.pt
            /\ n.pgdir[e] # 0 /\ \A f \in Envs : f # e => n.pgdir[f] = mm.pgdir[f]
<1> DEFINE p == page_alloc(mm).p
           a == page_alloc(mm).m
           n == env_setup_vm(mm, e)
<1>1. mm.free # <<>>
  BY FreeMemory
<1>2. /\ page_alloc(mm).r /\ p \in Pages /\ mm.pp_ref[p] = 0
      /\ Sound(a, {} \cup {p}) /\ Kept(mm, a)
      /\ a.pte = mm.pte /\ a.pt = mm.pt /\ a.pgdir = mm.pgdir /\ a.tlb = mm.tlb
      /\ a.pp_ref = mm.pp_ref
  BY <1>1, AllocSound
<1>3. {} \cup {p} = {p}
  OBVIOUS
<1> DEFINE G == [a.pgdir EXCEPT ![e] = p]
           R == [q \in Pages |-> IF q = p THEN a.pp_ref[q] + 1 ELSE a.pp_ref[q]]
<1>4. n = [a EXCEPT !.panic = @ \/ FALSE, !.pgdir = G, !.pp_ref = R]
  BY <1>2 DEF env_setup_vm
<1> HIDE DEF p, a, n
<1>5. a \in Memories /\ a.panic = FALSE
  BY <1>2, Fields DEF Sound
<1>6. p \in 0..NPAGE /\ p # 0
  BY <1>2, SizeFacts
<1>7. /\ G \in [Envs -> 0..NPAGE] /\ R \in [Pages -> Nat]
      /\ \A f \in Envs : G[f] = IF f = e THEN p ELSE a.pgdir[f]
  BY <1>2, <1>5, <1>6, Fields
<1> HIDE DEF G, R
<1>8. n = [a EXCEPT !.pgdir = G, !.pp_ref = R]
  BY <1>4, <1>5 DEF Memories
<1>9. n \in Memories
  BY <1>5, <1>7, <1>8 DEF Memories
<1>10. /\ n.pte = a.pte /\ n.tlb = a.tlb /\ n.mem = a.mem /\ n.pt = a.pt /\ n.pgdir = G
       /\ n.panic = a.panic /\ n.pp_ref = R /\ n.free = a.free
  BY <1>5, <1>8 DEF Memories
<1>11. DirSet(a, n, e, p)
  BY <1>7, <1>10 DEF DirSet
<1>12. \A q \in Pages : References(n, q) = References(a, q) + One(q = p)
  <2> TAKE q \in Pages
  <2>1. References(n, q) + One(a.pgdir[e] = q) = References(a, q) + One(p = q)
    BY <1>10, <1>11, DirCount
  <2>2. a.pgdir[e] # q
    BY <1>2, SizeFacts
  <2>3. References(n, q) \in Nat
    BY RefSets
  <2> QED
    BY <2>1, <2>2, <2>3 DEF One
<1>13. Counts(n) /\ FreeList(n, {p} \ {p})
  <2>1. n.pp_ref = [a.pp_ref EXCEPT ![p] = @ + 1] /\ n.free = a.free
    BY <1>2, <1>5, <1>10, Fields DEF R
  <2>2. p \in {p} /\ Counts(a) /\ FreeList(a, {p})
    BY <1>2, <1>3 DEF Sound
  <2> QED
    BY <1>2, <1>5, <1>12, <2>1, <2>2, Take
<1>14. {p} \ {p} = {}
  OBVIOUS
<1>15. Coherent(n) /\ Tabled(n)
  BY <1>2, <1>10 DEF Sound, Coherent, Tabled, Unmapped
<1> QED
  BY <1>2, <1>5, <1>6, <1>7, <1>9, <1>10, <1>13, <1>14, <1>15 DEF Sound, Kept, n

(* The loops of env_free.  After[i], in UnmapTable, is the memory when the  *)
(* first i addresses have been looked at.                                   *)
UnmapStep(mm, e, t, g, i) ==
  IF i = 0 THEN mm
  ELSE IF PDX(AddrSeq[i]) = t THEN page_remove(g[i - 1], e, AddrSeq[i]) ELSE g[i - 1]

IsUnmapping(mm, e, t, n, g) == g = [i \in 0..n |-> UnmapStep(mm, e, t, g, i)]

LEMMA UnmappingExists ==
  ASSUME NEW mm, NEW e, NEW t
  PROVE  \E g : IsUnmapping(mm, e, t, Len(AddrSeq), g)
<1> DEFINE L == Len(AddrSeq)
           Bad == {n \in 0..L : \A g : ~IsUnmapping(mm, e, t, n, g)}
<1>0. L \in Nat
  BY AddrFacts
<1> HIDE DEF L
<1>1. SUFFICES ASSUME Bad # {} PROVE FALSE
  <2>1. L \in 0..L
    BY <1>0
  <2> QED
    BY <2>1 DEF L
<1>2. PICK n \in Bad : \A y \in Bad : n <= y
  <2>1. Bad \subseteq Nat
    BY <1>0
  <2> HIDE DEF Bad
  <2> QED
    BY <1>1, <2>1, SmallestNat
<1>3. CASE n = 0
  <2> DEFINE g == [i \in 0..0 |-> mm]
  <2>1. \A i \in 0..0 : i = 0
    OBVIOUS
  <2>2. IsUnmapping(mm, e, t, 0, g)
    BY <2>1 DEF IsUnmapping, UnmapStep
  <2> QED
    BY <1>2, <1>3, <2>2
<1>4. CASE n # 0
  <2>1. n \in Nat /\ n \in 1..L /\ n - 1 \in 0..L /\ n - 1 < n
    BY <1>0, <1>4
  <2>2. PICK g : IsUnmapping(mm, e, t, n - 1, g)
    BY <1>2, <2>1
  <2> DEFINE f == [i \in 0..n |-> UnmapStep(mm, e, t, g, i)]
  <2>3. \A i \in 0..(n - 1) : g[i] = UnmapStep(mm, e, t, g, i)
    BY <2>2 DEF IsUnmapping
  <2>4. ASSUME NEW i \in 0..n PROVE UnmapStep(mm, e, t, g, i) = UnmapStep(mm, e, t, f, i)
    <3>1. CASE i = 0
      BY <3>1 DEF UnmapStep
    <3>2. CASE i # 0
      <4>1. i - 1 \in 0..n /\ i - 1 \in 0..(n - 1)
        BY <2>1, <3>2
      <4>2. f[i - 1] = g[i - 1]
        BY <2>3, <4>1
      <4> HIDE DEF f
      <4> QED
        BY <3>2, <4>2 DEF UnmapStep
    <3> QED
      BY <3>1, <3>2
  <2>5. IsUnmapping(mm, e, t, n, f)
    BY <2>4 DEF IsUnmapping
  <2> QED
    BY <1>2, <2>5
<1> QED
  BY <1>3, <1>4

(* The addresses of table t among the first k are unmapped in e. *)
Gone(mm, n, e, t, k) ==
  \A f \in Envs, vb \in Addr :
    n.pte[f][vb] = IF f = e /\ PDX(vb) = t /\ \E j \in 1..k : AddrSeq[j] = vb THEN NoPte
                   ELSE mm.pte[f][vb]

LEMMA UnmapTableSound ==
  ASSUME NEW mm, Sound(mm, {}), NEW e \in Envs, NEW t \in Tables
  PROVE  LET n == UnmapTable(mm, e, t)
         IN /\ Sound(n, {}) /\ n.mem = mm.mem /\ n.pt = mm.pt /\ n.pgdir = mm.pgdir
            /\ \A f \in Envs, vb \in Addr :
                 n.pte[f][vb] = IF f = e /\ PDX(vb) = t THEN NoPte ELSE mm.pte[f][vb]
<1> DEFINE L == Len(AddrSeq)
           F == CHOOSE g : g = [i \in 0..L |->
                  IF i = 0 THEN mm
                  ELSE IF PDX(AddrSeq[i]) = t THEN page_remove(g[i - 1], e, AddrSeq[i])
                  ELSE g[i - 1]]
<1>1. PICK g : IsUnmapping(mm, e, t, L, g)
  BY UnmappingExists
<1>2. g = [i \in 0..L |->
             IF i = 0 THEN mm
             ELSE IF PDX(AddrSeq[i]) = t THEN page_remove(g[i - 1], e, AddrSeq[i])
             ELSE g[i - 1]]
  BY <1>1 DEF IsUnmapping, UnmapStep
<1>3. F = [i \in 0..L |->
             IF i = 0 THEN mm
             ELSE IF PDX(AddrSeq[i]) = t THEN page_remove(F[i - 1], e, AddrSeq[i])
             ELSE F[i - 1]]
  BY <1>2
<1>4. UnmapTable(mm, e, t) = F[L]
  BY DEF UnmapTable
<1> HIDE DEF F, L
<1>5. L \in Nat /\ \A i \in 1..L : AddrSeq[i] \in Addr
  BY AddrFacts DEF L
<1> DEFINE Ok(i) == /\ Sound(F[i], {}) /\ F[i].mem = mm.mem /\ F[i].pt = mm.pt
                    /\ F[i].pgdir = mm.pgdir /\ Gone(mm, F[i], e, t, i)
           Bad == {i \in 0..L : ~Ok(i)}
<1>6. Bad = {}
  <2> SUFFICES ASSUME Bad # {} PROVE FALSE
    OBVIOUS
  <2>1. PICK n \in Bad : \A y \in Bad : n <= y
    <3>1. Bad \subseteq Nat
      BY <1>5
    <3> HIDE DEF Bad
    <3> QED
      BY <3>1, SmallestNat
  <2>2. CASE n = 0
    <3>1. F[0] = mm
      BY <1>3, <1>5
    <3>2. Gone(mm, mm, e, t, 0)
      <4>1. 1..0 = {}
        OBVIOUS
      <4> QED
        BY <4>1 DEF Gone
    <3> QED
      BY <2>1, <2>2, <3>1, <3>2
  <2>3. CASE n # 0
    <3>1. n \in 1..L /\ n \in Nat /\ n - 1 \in Nat /\ n - 1 \in 0..L /\ n - 1 < n
      BY <1>5, <2>3
    <3>2. Ok(n - 1)
      BY <2>1, <3>1
    <3> DEFINE a == AddrSeq[n]
               b == F[n - 1]
               c == F[n]
    <3>3. c = IF PDX(a) = t THEN page_remove(b, e, a) ELSE b
      BY <1>3, <2>3, <3>1
    <3>4. a \in Addr
      BY <1>5, <3>1
    <3>5. \A vb \in Addr : (\E j \in 1..n : AddrSeq[j] = vb)
                             <=> (vb = a \/ \E j \in 1..(n - 1) : AddrSeq[j] = vb)
      <4>1. 1..n = (1..(n - 1)) \cup {n}
        BY <3>1
      <4> QED
        BY <4>1
    <3>6. /\ Sound(b, {}) /\ b.mem = mm.mem /\ b.pt = mm.pt /\ b.pgdir = mm.pgdir
          /\ Gone(mm, b, e, t, n - 1)
      BY <3>2
    <3>7. ~(Sound(c, {}) /\ c.mem = mm.mem /\ c.pt = mm.pt /\ c.pgdir = mm.pgdir /\ Gone(mm, c, e, t, n))
      BY <2>1
    <3> HIDE DEF a, b, c
    <3>8. CASE PDX(a) = t
      <4>1. /\ Sound(c, {}) /\ PteSet(b, c, e, a, NoPte)
            /\ c.mem = b.mem /\ c.pt = b.pt /\ c.pgdir = b.pgdir
        BY <3>3, <3>4, <3>6, <3>8, RemoveSound
      <4>2. Gone(mm, c, e, t, n)
        BY <3>5, <3>6, <3>8, <4>1 DEF Gone, PteSet
      <4> QED
        BY <3>6, <3>7, <4>1, <4>2
    <3>9. CASE PDX(a) # t
      <4>1. c = b
        BY <3>3, <3>9
      <4>2. Gone(mm, c, e, t, n)
        BY <3>5, <3>6, <3>9, <4>1 DEF Gone
      <4> QED
        BY <3>6, <3>7, <4>1, <4>2
    <3> QED
      BY <3>8, <3>9
  <2> QED
    BY <2>2, <2>3
<1>7. Ok(L)
  BY <1>5, <1>6
<1>8. \A vb \in Addr : \E j \in 1..L : AddrSeq[j] = vb
  BY AddrFacts DEF L
<1> HIDE DEF Bad
<1> QED
  BY <1>4, <1>7, <1>8 DEF Gone

LEMMA FreeTableSound ==
  ASSUME NEW mm, Sound(mm, {}), NEW e \in Envs, NEW t \in Tables
  PROVE  LET n == FreeTable(mm, e, t)
         IN /\ Sound(n, {}) /\ n.mem = mm.mem /\ n.pgdir = mm.pgdir /\ PtSet(mm, n, e, t, 0)
            /\ \A f \in Envs, vb \in Addr :
                 n.pte[f][vb] = IF f = e /\ PDX(vb) = t THEN NoPte ELSE mm.pte[f][vb]
<1> DEFINE u == UnmapTable(mm, e, t)
           p == u.pt[e][t]
           v == [u EXCEPT !.pt[e][t] = 0]
           d == page_decref(v, p)
           n == FreeTable(mm, e, t)
<1>1. CASE mm.pt[e][t] = 0
  <2>1. n = mm
    BY <1>1 DEF FreeTable
  <2>2. \A vb \in Addr : PDX(vb) = t => mm.pte[e][vb] = NoPte
    BY <1>1 DEF Sound, Tabled, Unmapped
  <2> QED
    BY <1>1, <2>1, <2>2 DEF PtSet
<1>2. CASE mm.pt[e][t] # 0
  <2>1. /\ Sound(u, {}) /\ u.mem = mm.mem /\ u.pt = mm.pt /\ u.pgdir = mm.pgdir
        /\ \A f \in Envs, vb \in Addr :
             u.pte[f][vb] = IF f = e /\ PDX(vb) = t THEN NoPte ELSE mm.pte[f][vb]
    BY UnmapTableSound
  <2>2. n = tlb_invalidate(d, e, t)
    BY <1>2 DEF FreeTable
  <2> HIDE DEF u, n
  <2>3. u \in Memories
    BY <2>1 DEF Sound
  <2>4. p \in Pages /\ u.pp_ref[p] # 0
    BY <1>2, <2>1, InUse
  <2> DEFINE T == [u.pt EXCEPT ![e][t] = 0]
             B == [u.tlb EXCEPT ![e][t] = Absent]
  <2>5. /\ T \in [Envs -> [Tables -> 0..NPAGE]]
        /\ \A f \in Envs, x \in Tables : T[f][x] = IF f = e /\ x = t THEN 0 ELSE u.pt[f][x]
    <3>1. u.pt \in [Envs -> [Tables -> 0..NPAGE]] /\ 0 \in 0..NPAGE
      BY <2>3, Fields, SizeFacts
    <3> HIDE DEF v, d, p
    <3> QED
      BY <3>1
  <2>6. /\ B \in [Envs -> [Addr \cup Tables -> Ptes \cup {Absent}]]
        /\ \A f \in Envs, x \in Addr \cup Tables : B[f][x] = IF f = e /\ x = t THEN Absent ELSE u.tlb[f][x]
    <3>1. u.tlb \in [Envs -> [Addr \cup Tables -> Ptes \cup {Absent}]]
      BY <2>3, Fields
    <3> HIDE DEF v, d, p
    <3> QED
      BY <3>1
  <2>7. v = [u EXCEPT !.pt = T]
    OBVIOUS
  <2> HIDE DEF T, B, v, p
  <2>8. v \in Memories
    BY <2>3, <2>5, <2>7 DEF Memories
  <2>9. /\ v.pte = u.pte /\ v.tlb = u.tlb /\ v.mem = u.mem /\ v.pt = T /\ v.pgdir = u.pgdir
        /\ v.panic = u.panic /\ v.pp_ref = u.pp_ref /\ v.free = u.free
    BY <2>3, <2>7 DEF Memories
  <2>10. /\ d \in Memories /\ Dropped(v, d, p)
         /\ d.mem = v.mem /\ d.pte = v.pte /\ d.pt = v.pt /\ d.pgdir = v.pgdir
         /\ d.tlb = v.tlb /\ d.panic = v.panic
    BY <2>4, <2>8, <2>9, DecrefIs
  <2> HIDE DEF d
  <2>11. n = [d EXCEPT !.tlb = B]
    BY <2>2, <2>9, <2>10 DEF tlb_invalidate, B
  <2>12. n \in Memories
    BY <2>6, <2>10, <2>11 DEF Memories
  <2>13. /\ n.pte = u.pte /\ n.tlb = B /\ n.mem = u.mem /\ n.pt = T /\ n.pgdir = u.pgdir
         /\ n.panic = u.panic /\ n.pp_ref = d.pp_ref /\ n.free = d.free
    BY <2>9, <2>10, <2>11 DEF Memories
  <2>14. Dropped(u, n, p)
    BY <2>9, <2>10, <2>13 DEF Dropped
  <2>15. PtSet(u, n, e, t, 0)
    BY <2>5, <2>13 DEF PtSet
  <2>16. \A q \in Pages : References(n, q) + One(q = p) = References(u, q)
    <3> TAKE q \in Pages
    <3>1. References(n, q) + One(u.pt[e][t] = q) = References(u, q) + One(0 = q)
      BY <2>13, <2>15, PtRefs
    <3>2. 0 # q
      BY SizeFacts
    <3>3. References(u, q) \in Nat
      BY RefSets
    <3> QED
      BY <3>1, <3>2, <3>3 DEF One, p
  <2>17. Counts(n) /\ FreeList(n, {})
    BY <2>1, <2>3, <2>4, <2>14, <2>16, Drop DEF Sound
  <2>18. Coherent(n)
    <3>1. Coherent(u) /\ t \notin Addr
      BY <2>1, AddrFacts DEF Sound
    <3>2. ASSUME NEW f \in Envs, NEW vb \in Addr PROVE n.tlb[f][vb] = u.tlb[f][vb]
      BY <2>6, <2>13, <3>1
    <3>3. ASSUME NEW f \in Envs, NEW x \in Tables, n.tlb[f][x] # Absent
          PROVE  n.tlb[f][x].page = n.pt[f][x] /\ n.pt[f][x] # 0
      BY <2>5, <2>6, <2>13, <3>1, <3>3, SMTT(40) DEF Coherent
    <3> QED
      BY <2>13, <3>1, <3>2, <3>3 DEF Coherent
  <2>19. Tabled(n)
    <3> SUFFICES ASSUME NEW f \in Envs, NEW vb \in Addr,
                        n.pte[f][vb].page = 0 \/ n.pt[f][PDX(vb)] = 0
                 PROVE  n.pte[f][vb] = NoPte
      BY DEF Tabled, Unmapped
    <3>1. PDX(vb) \in Tables
      BY AddrFacts
    <3>2. CASE f = e /\ PDX(vb) = t
      BY <2>1, <2>13, <3>2
    <3>3. CASE ~(f = e /\ PDX(vb) = t)
      <4>1. n.pt[f][PDX(vb)] = u.pt[f][PDX(vb)]
        BY <2>15, <3>1, <3>3 DEF PtSet
      <4> QED
        BY <2>1, <2>13, <4>1 DEF Sound, Tabled, Unmapped
    <3> QED
      BY <3>2, <3>3
  <2>20. Sound(n, {})
    BY <2>1, <2>12, <2>13, <2>17, <2>18, <2>19 DEF Sound
  <2>21. PtSet(mm, n, e, t, 0)
    BY <2>1, <2>15 DEF PtSet
  <2> QED
    BY <2>1, <2>13, <2>20, <2>21 DEF n
<1> QED
  BY <1>1, <1>2

(* env_free leaves nothing of the env, and everything of the others. *)
LEMMA FreeSound ==
  ASSUME NEW mm, Sound(mm, {}), NEW e \in Envs, mm.pgdir[e] # 0
  PROVE  LET n == env_free(mm, e)
         IN /\ Sound(n, {}) /\ n.mem = mm.mem
            /\ \A f \in Envs, va \in Addr : n.pte[f][va] = IF f = e THEN NoPte ELSE mm.pte[f][va]
            /\ \A f \in Envs, t \in Tables : n.pt[f][t] = IF f = e THEN 0 ELSE mm.pt[f][t]
            /\ \A f \in Envs : n.pgdir[f] = IF f = e THEN 0 ELSE mm.pgdir[f]
<1> DEFINE a == FreeTable(mm, e, "T0")
           u == FreeTable(a, e, "T1")
           p == u.pgdir[e]
           d == page_decref(u, p)
           n == env_free(mm, e)
<1>1. "T0" \in Tables /\ "T1" \in Tables /\ \A t \in Tables : t = "T0" \/ t = "T1"
  BY DEF Tables
<1>2. \A va \in Addr : PDX(va) = "T0" \/ PDX(va) = "T1"
  BY DEF PDX
<1>3. n = [d EXCEPT !.pgdir[e] = 0]
  BY DEF env_free
<1>4. /\ Sound(a, {}) /\ a.mem = mm.mem /\ a.pgdir = mm.pgdir /\ PtSet(mm, a, e, "T0", 0)
      /\ \A f \in Envs, vb \in Addr :
           a.pte[f][vb] = IF f = e /\ PDX(vb) = "T0" THEN NoPte ELSE mm.pte[f][vb]
  BY <1>1, FreeTableSound
<1> HIDE DEF a
<1>5. /\ Sound(u, {}) /\ u.mem = a.mem /\ u.pgdir = a.pgdir /\ PtSet(a, u, e, "T1", 0)
      /\ \A f \in Envs, vb \in Addr :
           u.pte[f][vb] = IF f = e /\ PDX(vb) = "T1" THEN NoPte ELSE a.pte[f][vb]
  BY <1>1, <1>4, FreeTableSound
<1> HIDE DEF u
<1>6. u \in Memories /\ p \in Pages /\ u.pp_ref[p] # 0
  BY <1>4, <1>5, InUse DEF Sound
<1>7. /\ d \in Memories /\ Dropped(u, d, p)
      /\ d.mem = u.mem /\ d.pte = u.pte /\ d.pt = u.pt /\ d.pgdir = u.pgdir
      /\ d.tlb = u.tlb /\ d.panic = u.panic
  BY <1>6, DecrefIs
<1> DEFINE G == [u.pgdir EXCEPT ![e] = 0]
<1>8. /\ G \in [Envs -> 0..NPAGE]
      /\ \A f \in Envs : G[f] = IF f = e THEN 0 ELSE u.pgdir[f]
  <2>1. u.pgdir \in [Envs -> 0..NPAGE] /\ 0 \in 0..NPAGE
    BY <1>6, Fields, SizeFacts, SMTT(40)
  <2> HIDE DEF d, n, p
  <2> QED
    BY <2>1
<1> HIDE DEF d, n, p, G
<1>9. n = [d EXCEPT !.pgdir = G]
  BY <1>3, <1>7 DEF G
<1>10. n \in Memories
  BY <1>7, <1>8, <1>9 DEF Memories
<1>11. /\ n.pte = u.pte /\ n.tlb = u.tlb /\ n.mem = u.mem /\ n.pt = u.pt /\ n.pgdir = G
       /\ n.panic = u.panic /\ n.pp_ref = d.pp_ref /\ n.free = d.free
  BY <1>7, <1>9 DEF Memories
<1>12. Dropped(u, n, p)
  BY <1>7, <1>11 DEF Dropped
<1>13. DirSet(u, n, e, 0)
  BY <1>8, <1>11 DEF DirSet
<1>14. \A q \in Pages : References(n, q) + One(q = p) = References(u, q)
  <2> TAKE q \in Pages
  <2>1. References(n, q) + One(u.pgdir[e] = q) = References(u, q) + One(0 = q)
    BY <1>11, <1>13, DirCount
  <2>2. 0 # q
    BY SizeFacts
  <2>3. References(u, q) \in Nat
    BY RefSets
  <2> QED
    BY <2>1, <2>2, <2>3 DEF One, p
<1>15. Counts(n) /\ FreeList(n, {})
  BY <1>5, <1>6, <1>12, <1>14, Drop DEF Sound
<1>16. Coherent(n) /\ Tabled(n)
  BY <1>5, <1>11 DEF Sound, Coherent, Tabled, Unmapped
<1>17. Sound(n, {})
  BY <1>5, <1>10, <1>11, <1>15, <1>16 DEF Sound
<1>18. \A f \in Envs, va \in Addr : n.pte[f][va] = IF f = e THEN NoPte ELSE mm.pte[f][va]
  BY <1>2, <1>4, <1>5, <1>11
<1>19. \A f \in Envs, t \in Tables : n.pt[f][t] = IF f = e THEN 0 ELSE mm.pt[f][t]
  BY <1>1, <1>4, <1>5, <1>11 DEF PtSet
<1>20. \A f \in Envs : n.pgdir[f] = IF f = e THEN 0 ELSE mm.pgdir[f]
  BY <1>4, <1>5, <1>8, <1>11
<1> QED
  BY <1>4, <1>5, <1>11, <1>17, <1>18, <1>19, <1>20 DEF n

(* Empty memory, as page_init leaves it. *)
LEMMA EmptySound ==
  /\ Sound(Empty, {}) /\ \A e \in Envs : Empty.pgdir[e] = 0
  /\ \A e \in Envs, va \in Addr : Empty.pte[e][va] = NoPte
  /\ \A e \in Envs, t \in Tables : Empty.pt[e][t] = 0
<1>1. NPAGE \in Nat /\ Pages = 1..NPAGE
  BY SizeFacts
<1> DEFINE s == [i \in 1..NPAGE |-> NPAGE + 1 - i]
<1>2. s \in [1..NPAGE -> Pages]
  BY <1>1
<1>3. s \in Seq(Pages)
  BY <1>1, <1>2, FunctionIsSeq
<1>4. IsInjective(s) /\ Range(s) = Pages
  <2>1. DOMAIN s = 1..NPAGE /\ \A i \in 1..NPAGE : s[i] = NPAGE + 1 - i
    OBVIOUS
  <2> HIDE DEF s
  <2>2. IsInjective(s)
    <3> SUFFICES ASSUME NEW i \in 1..NPAGE, NEW j \in 1..NPAGE, s[i] = s[j] PROVE i = j
      BY <2>1 DEF IsInjective
    <3>1. NPAGE + 1 - i = NPAGE + 1 - j
      BY <2>1
    <3> QED
      BY <1>1, <3>1
  <2>3. \A p \in Pages : NPAGE + 1 - p \in 1..NPAGE /\ s[NPAGE + 1 - p] = p
    BY <1>1, <2>1
  <2>4. \A i \in 1..NPAGE : s[i] \in Pages
    BY <1>2
  <2> QED
    BY <2>1, <2>2, <2>3, <2>4 DEF Range
<1>5. /\ Empty.free = s /\ Empty.pp_ref = [p \in Pages |-> 0] /\ Empty.panic = FALSE
      /\ Empty.pte = [e \in Envs |-> [va \in Addr |-> NoPte]]
      /\ Empty.pt = [e \in Envs |-> [t \in Tables |-> 0]]
      /\ Empty.pgdir = [e \in Envs |-> 0]
      /\ Empty.tlb = [e \in Envs |-> [x \in Addr \cup Tables |-> Absent]]
      /\ Empty.mem = [p \in Pages |-> Clear]
  BY DEF Empty
<1> HIDE DEF s
<1>6. Empty \in Memories
  <2>1. /\ [e \in Envs |-> [va \in Addr |-> NoPte]] \in [Envs -> [Addr -> Ptes]]
        /\ [p \in Pages |-> Clear] \in [Pages -> [Halves -> {0} \cup Stores]]
        /\ [e \in Envs |-> [x \in Addr \cup Tables |-> Absent]]
             \in [Envs -> [Addr \cup Tables -> Ptes \cup {Absent}]]
    BY PteFacts
  <2>2. /\ [e \in Envs |-> [t \in Tables |-> 0]] \in [Envs -> [Tables -> 0..NPAGE]]
        /\ [e \in Envs |-> 0] \in [Envs -> 0..NPAGE] /\ [p \in Pages |-> 0] \in [Pages -> Nat]
    BY <1>1
  <2> QED
    BY <1>3, <1>5, <2>1, <2>2 DEF Empty, Memories, s
<1>7. /\ \A e \in Envs, va \in Addr : Empty.pte[e][va] = NoPte
      /\ \A e \in Envs, t \in Tables : Empty.pt[e][t] = 0
      /\ \A e \in Envs : Empty.pgdir[e] = 0
      /\ \A e \in Envs, x \in Addr \cup Tables : Empty.tlb[e][x] = Absent
      /\ \A p \in Pages : Empty.pp_ref[p] = 0
  BY <1>5
<1>8. Counts(Empty)
  <2> SUFFICES ASSUME NEW p \in Pages PROVE References(Empty, p) = 0
    BY <1>7 DEF Counts
  <2>1. p # 0 /\ NoPte.page = 0
    BY <1>1, PteFacts
  <2>2. MapRefs(Empty, p) = {} /\ TableRefs(Empty, p) = {} /\ DirRefs(Empty, p) = {}
    BY <1>7, <2>1 DEF MapRefs, TableRefs, DirRefs
  <2> QED
    BY <2>2, RefSets, FS_EmptySet
<1>9. FreeList(Empty, {})
  BY <1>4, <1>5, <1>7 DEF FreeList
<1>10. Coherent(Empty) /\ Tabled(Empty)
  BY <1>7 DEF Coherent, Tabled, Unmapped
<1> QED
  BY <1>5, <1>6, <1>7, <1>8, <1>9, <1>10 DEF Sound

----------------------------------------------------------------------------
(* The steps *)

LEMMA StateFacts ==
  ASSUME IInv
  PROVE  /\ m \in Memories /\ m.panic = FALSE
         /\ \A e \in Envs, va \in Addr :
              /\ m.pte[e][va] \in Ptes /\ (Page(e, va) = 0 => m.pte[e][va] = NoPte)
              /\ m.pte[e][va] = [page |-> Page(e, va), perm |-> Perm(e, va)]
              /\ Page(e, va) # 0 => Page(e, va) \in Pages /\ m.pp_ref[Page(e, va)] # 0
         /\ \A e \in Envs :
              /\ status[e] \in {"FREE", "NOT_RUNNABLE", "RUNNABLE"} /\ entry[e] \in BOOLEAN
              /\ fk[e].pc \in {"idle", "scan", "dup", "entry", "status"}
              /\ fk[e].child \in 0..NENV /\ fk[e].i \in 0..Len(AddrSeq) /\ fk[e].perm \in Perms
              /\ fk[e].n \in 0..2
              /\ cow[e].pc \in {"idle", "alloc", "copy1", "copy2", "map", "unmap"}
              /\ cow[e].va \in Addr /\ cow[e].perm \in Perms
              /\ \A va \in Addr : want[e][va] \in [Halves -> {0} \cup Stores]
<1>1. Sound(m, {}) /\ OtherTypes
  BY DEF IInv
<1>2. m \in Memories /\ m.panic = FALSE
  BY <1>1, Fields DEF Sound
<1>3. m.pte \in [Envs -> [Addr -> Ptes]]
  BY <1>2, Fields
<1>4. ASSUME NEW e \in Envs, NEW va \in Addr
      PROVE  /\ m.pte[e][va] \in Ptes /\ (Page(e, va) = 0 => m.pte[e][va] = NoPte)
             /\ m.pte[e][va] = [page |-> Page(e, va), perm |-> Perm(e, va)]
             /\ Page(e, va) # 0 => Page(e, va) \in Pages /\ m.pp_ref[Page(e, va)] # 0
  <2>1. m.pte[e][va] \in Ptes
    BY <1>3
  <2>2. Page(e, va) = 0 => m.pte[e][va] = NoPte
    BY <1>1 DEF Sound, Tabled, Unmapped, Page
  <2>3. m.pte[e][va] = [page |-> Page(e, va), perm |-> Perm(e, va)]
    BY <2>1 DEF Page, Perm, Ptes
  <2>4. Page(e, va) # 0 => Page(e, va) \in Pages /\ m.pp_ref[Page(e, va)] # 0
    BY <1>1, InUse DEF Page
  <2> QED
    BY <2>1, <2>2, <2>3, <2>4
<1>5. ASSUME NEW e \in Envs
      PROVE  /\ status[e] \in {"FREE", "NOT_RUNNABLE", "RUNNABLE"} /\ entry[e] \in BOOLEAN
             /\ fk[e].pc \in {"idle", "scan", "dup", "entry", "status"}
             /\ fk[e].child \in 0..NENV /\ fk[e].i \in 0..Len(AddrSeq) /\ fk[e].perm \in Perms
             /\ fk[e].n \in 0..2
             /\ cow[e].pc \in {"idle", "alloc", "copy1", "copy2", "map", "unmap"}
             /\ cow[e].va \in Addr /\ cow[e].perm \in Perms
             /\ \A va \in Addr : want[e][va] \in [Halves -> {0} \cup Stores]
  BY <1>1 DEF OtherTypes
<1> QED
  BY <1>2, <1>4, <1>5

(* duppage is at an address of the program, which cow_entry is not at. *)
LEMMA DupAddress ==
  ASSUME IInv, NEW e \in Envs, fk[e].pc = "dup"
  PROVE  /\ InDup(e) /\ fk[e].i \in 2..Len(AddrSeq) /\ fk[e].i \in 1..Len(AddrSeq)
         /\ AddrSeq[fk[e].i] \in Range(Data) /\ AddrSeq[fk[e].i] \in Addr
         /\ AddrSeq[fk[e].i] # "UCOW"
         /\ cow[e].pc # "idle" => cow[e].va # AddrSeq[fk[e].i]
<1>1. InDup(e)
  BY DEF IInv, Forks, InFork
<1>2. /\ fk[e].i \in 2..Len(AddrSeq)
      /\ cow[e].pc # "idle" => cow[e].va # AddrSeq[fk[e].i]
  BY <1>1 DEF InDup
<1>3. fk[e].i \in 1..Len(AddrSeq)
  BY <1>2, AddrFacts
<1> QED
  BY <1>1, <1>2, <1>3, AddrFacts

(* A child that is being made does not run, and an env that runs is nobody's. *)
LEMMA Children ==
  ASSUME IInv, NEW e \in Envs, status[e] = "RUNNABLE"
  PROVE  /\ \A f \in Envs : fk[f].pc # "idle" => fk[f].child # e
         /\ \A f \in Envs, va \in Addr : ~Window(f, va, e)
<1>1. \A f \in Envs : fk[f].pc # "idle" => fk[f].child # e
  BY DEF IInv, Forks, InFork, Forker
<1> QED
  BY <1>1 DEF Window

(* The slots that are not written keep their page and what it holds. *)
LEMMA Elsewhere ==
  ASSUME IInv, NEW t \in Envs, NEW va \in Addr, NEW x, PteSet(m, m', t, va, x), Kept(m, m')
  PROVE  /\ m'.pte[t][va] = x
         /\ \A f \in Envs, vb \in Addr : Page(f, vb) # 0 => m'.mem[Page(f, vb)] = m.mem[Page(f, vb)]
         /\ \A f \in Envs, vb \in Addr : f # t \/ vb # va =>
              /\ m'.pte[f][vb] = m.pte[f][vb] /\ View(m', f, vb) = View(m, f, vb)
              /\ Shared(m', f, vb) = Shared(m, f, vb)
<1>1. m'.pte[t][va] = x
  BY DEF PteSet
<1>2. ASSUME NEW f \in Envs, NEW vb \in Addr, Page(f, vb) # 0
      PROVE  m'.mem[Page(f, vb)] = m.mem[Page(f, vb)]
  BY <1>2, StateFacts DEF Kept
<1>3. ASSUME NEW f \in Envs, NEW vb \in Addr, f # t \/ vb # va
      PROVE  /\ m'.pte[f][vb] = m.pte[f][vb] /\ View(m', f, vb) = View(m, f, vb)
             /\ Shared(m', f, vb) = Shared(m, f, vb)
  <2>1. m'.pte[f][vb] = m.pte[f][vb]
    BY <1>3 DEF PteSet
  <2> QED
    BY <1>2, <2>1 DEF View, Shared, Page
<1> QED
  BY <1>1, <1>2, <1>3

(* What keeps the place of an env in fork, in cow_entry, and its memory. *)
LEMMA ForkStays ==
  ASSUME IInv, NEW e \in Envs, fk'[e] = fk[e],
         fk[e].pc # "idle" =>
           /\ Forker(e)'
           /\ \A vb \in Addr : m'.pte[fk[e].child][vb] = m.pte[fk[e].child][vb],
         fk[e].pc = "dup" =>
           LET va == AddrSeq[fk[e].i]
           IN m'.pte[e][va] = m.pte[e][va] /\ (cow'[e].pc # "idle" => cow'[e].va # va),
         fk[e].pc = "status" => entry'[fk[e].child]
  PROVE  InFork(e)'
<1>1. CASE fk[e].pc = "idle"
  BY <1>1 DEF InFork
<1>2. CASE fk[e].pc # "idle"
  <2>1. /\ Forker(e)' /\ \A vb \in Addr : m'.pte[fk[e].child][vb] = m.pte[fk[e].child][vb]
    BY <1>2
  <2>2. /\ fk[e].i \in Nat /\ Len(AddrSeq) \in Nat
        /\ \A j \in 1..Len(AddrSeq) : AddrSeq[j] \in Addr
    BY StateFacts, AddrFacts
  <2>3. fk[e].pc = "scan" => InScan(e)'
    <3> SUFFICES ASSUME fk[e].pc = "scan" PROVE InScan(e)'
      OBVIOUS
    <3>1. InScan(e)
      BY DEF IInv, Forks, InFork
    <3>2. \A j \in fk[e].i..Len(AddrSeq) : j \in 1..Len(AddrSeq)
      BY <2>2, <3>1 DEF InScan
    <3> QED
      BY <2>1, <2>2, <3>1, <3>2 DEF InScan, Unmapped
  <2>4. fk[e].pc = "dup" => InDup(e)'
    <3> SUFFICES ASSUME fk[e].pc = "dup" PROVE InDup(e)'
      OBVIOUS
    <3>1. InDup(e)
      BY DEF IInv, Forks, InFork
    <3>2. /\ fk[e].i \in 1..Len(AddrSeq)
          /\ \A j \in (fk[e].i + 1)..Len(AddrSeq) : j \in 1..Len(AddrSeq)
      BY <2>2, <3>1 DEF InDup
    <3> DEFINE i == fk[e].i
               c == fk[e].child
    <3>3. fk'[e].i = i /\ fk'[e].child = c /\ fk'[e].n = fk[e].n /\ fk'[e].perm = fk[e].perm
      OBVIOUS
    <3>4. /\ m'.pte[e][AddrSeq[i]] = m.pte[e][AddrSeq[i]]
          /\ cow'[e].pc # "idle" => cow'[e].va # AddrSeq[i]
      OBVIOUS
    <3>5. m'.pte[c][AddrSeq[i]] = m.pte[c][AddrSeq[i]]
      BY <2>1, <2>2, <3>2
    <3>6. \A j \in (i + 1)..Len(AddrSeq) : m'.pte[c][AddrSeq[j]] = NoPte
      BY <2>1, <2>2, <3>1, <3>2, <3>3 DEF InDup, Unmapped
    <3> HIDE DEF i, c
    <3>7. /\ i \in 2..Len(AddrSeq) /\ Page(e, AddrSeq[i]) # 0 /\ Perm(e, AddrSeq[i]) = fk[e].perm
          /\ \/ fk[e].n = 1 /\ Unmapped(m, c, AddrSeq[i])
             \/ /\ fk[e].n = 2 /\ fk[e].perm = {D}
                /\ m.pte[c][AddrSeq[i]] = [page |-> Page(e, AddrSeq[i]), perm |-> {COW}]
      BY <3>1 DEF InDup, i, c
    <3>8. /\ fk'[e].i \in 2..Len(AddrSeq)
          /\ m'.pte[e][AddrSeq[fk'[e].i]].page # 0 /\ m'.pte[e][AddrSeq[fk'[e].i]].perm = fk'[e].perm
          /\ cow'[e].pc # "idle" => cow'[e].va # AddrSeq[fk'[e].i]
      BY <3>3, <3>4, <3>7 DEF Page, Perm
    <3>9. \/ fk'[e].n = 1 /\ m'.pte[fk'[e].child][AddrSeq[fk'[e].i]] = NoPte
          \/ /\ fk'[e].n = 2 /\ fk'[e].perm = {D}
             /\ m'.pte[fk'[e].child][AddrSeq[fk'[e].i]]
                  = [page |-> m'.pte[e][AddrSeq[fk'[e].i]].page, perm |-> {COW}]
      BY <3>3, <3>4, <3>5, <3>7 DEF Unmapped, Page
    <3>10. \A j \in (fk'[e].i + 1)..Len(AddrSeq) : m'.pte[fk'[e].child][AddrSeq[j]] = NoPte
      BY <3>3, <3>6
    <3> QED
      BY <3>8, <3>9, <3>10 DEF InDup, Unmapped, Page, Perm
  <2> QED
    BY <2>1, <2>3, <2>4 DEF InFork
<1> QED
  BY <1>1, <1>2

LEMMA ForkerStays ==
  ASSUME IInv, NEW e \in Envs, fk[e].pc # "idle", UNCHANGED <<status, entry, fk>>
  PROVE  Forker(e)'
  BY DEF IInv, Forks, InFork, Forker

LEMMA CowStays ==
  ASSUME IInv, NEW e \in Envs, cow'[e] = cow[e],
         cow[e].pc # "idle" => status'[e] = "RUNNABLE",
         \A vb \in Addr : m'.pte[e][vb] = m.pte[e][vb],
         \A vb \in Addr : Page(e, vb) # 0 => m'.mem[Page(e, vb)] = m.mem[Page(e, vb)]
  PROVE  CowOf(e)'
<1>1. CowOf(e) /\ cow[e].va \in Addr /\ "UCOW" \in Addr
  BY StateFacts, AddrFacts DEF IInv, Cows
<1>2. \A vb \in Addr : Page(e, vb)' = Page(e, vb) /\ Perm(e, vb)' = Perm(e, vb)
  BY DEF Page, Perm
<1> QED
  BY <1>1, <1>2 DEF CowOf, InCow, Unmapped

LEMMA PrivateStays ==
  ASSUME IInv, NEW e \in Envs, NEW va \in Range(Data),
         status'[e] = "RUNNABLE" \/ Child(e)' => status[e] = "RUNNABLE" \/ Child(e),
         View(m', e, va) = View(m, e, va), Shared(m', e, va) = Shared(m, e, va),
         want'[e][va] = want[e][va],
         (\A f \in Envs : ~Window(f, va, e)') => \A f \in Envs : ~Window(f, va, e)
  PROVE  PrivateAt(e, va)'
<1>1. PrivateAt(e, va)
  BY DEF IInv, Private
<1> QED
  BY <1>1 DEF PrivateAt

(* A step that changes no mapping and no memory in use. *)
LEMMA Quiet ==
  ASSUME IInv, Sound(m, {})', Dirs', OtherTypes', m'.pte = m.pte, Kept(m, m'),
         UNCHANGED <<status, entry, fk, cow, want>>
  PROVE  IInv'
<1>1. \A f \in Envs, vb \in Addr :
        /\ Page(f, vb)' = Page(f, vb) /\ Perm(f, vb)' = Perm(f, vb)
        /\ Page(f, vb) # 0 => m'.mem[Page(f, vb)] = m.mem[Page(f, vb)]
        /\ View(m, f, vb)' = View(m, f, vb) /\ Shared(m, f, vb)' = Shared(m, f, vb)
  <2>1. \A f \in Envs, vb \in Addr :
          Page(f, vb) # 0 => m'.mem[Page(f, vb)] = m.mem[Page(f, vb)]
    BY StateFacts DEF Kept
  <2> QED
    BY <2>1 DEF Page, Perm, View, Shared
<1>2. Kinds'
  BY <1>1 DEF IInv, Kinds
<1>3. Forks'
  <2> SUFFICES ASSUME NEW e \in Envs PROVE InFork(e)'
    BY DEF Forks
  <2>1. fk[e].pc # "idle" => Forker(e)'
    BY ForkerStays
  <2>2. fk[e].pc = "dup" => (cow[e].pc # "idle" => cow[e].va # AddrSeq[fk[e].i])
    BY DEF IInv, Forks, InFork, InDup
  <2>3. fk[e].pc = "status" => entry[fk[e].child]
    BY DEF IInv, Forks, InFork
  <2> QED
    BY <2>1, <2>2, <2>3, ForkStays
<1>4. Cows'
  <2> SUFFICES ASSUME NEW e \in Envs PROVE CowOf(e)'
    BY DEF Cows
  <2>1. cow[e].pc # "idle" => status[e] = "RUNNABLE"
    BY DEF IInv, Cows, CowOf, InCow
  <2> QED
    BY <1>1, <2>1, CowStays
<1>5. Exclusive'
  BY <1>1 DEF IInv, Exclusive, MayAlias, Window
<1>6. Handled'
  BY <1>1 DEF IInv, Handled
<1>7. Private'
  <2> SUFFICES ASSUME NEW e \in Envs, NEW va \in Range(Data) PROVE PrivateAt(e, va)'
    BY DEF Private
  <2>1. va \in Addr
    BY AddrFacts
  <2>2. Child(e)' = Child(e) /\ \A f \in Envs : Window(f, va, e)' = Window(f, va, e)
    BY DEF Child, Window
  <2> QED
    BY <1>1, <2>1, <2>2, PrivateStays
<1> QED
  BY <1>2, <1>3, <1>4, <1>5, <1>6, <1>7 DEF IInv

LEMMA DirsStay ==
  ASSUME IInv, NEW e \in Envs, status[e] # "FREE", Alike(m, m', e), UNCHANGED status
  PROVE  Dirs'
<1>1. Dirs
  BY DEF IInv
<1> QED
  BY <1>1 DEF Dirs, Alike, OthersTables

LEMMA AliasSym ==
  ASSUME NEW e \in Envs, NEW f \in Envs, NEW va, NEW vb, MayAlias(e, va, f, vb)'
  PROVE  MayAlias(f, vb, e, va)'
  BY DEF MayAlias

(* One slot is written: the mappings of its page are the ones to look at. *)
LEMMA SlotExclusive ==
  ASSUME IInv, NEW t \in Envs, NEW va \in Addr, NEW x, PteSet(m, m', t, va, x),
         UNCHANGED fk, \A f \in Envs : f # t => cow'[f] = cow[f],
         cow[t].pc = "unmap" => cow'[t] = cow[t] \/ va = "UCOW",
         \A f \in Envs, vb \in Addr :
           (f # t \/ vb # va) /\ x.page # 0 /\ Page(f, vb) = x.page => MayAlias(t, va, f, vb)'
  PROVE  Exclusive'
<1> SUFFICES ASSUME NEW e \in Envs, NEW f \in Envs, NEW a \in Addr, NEW b \in Addr,
                    m'.pte[e][a].page # 0, m'.pte[e][a].page = m'.pte[f][b].page,
                    ~(e = f /\ a = b)
             PROVE  MayAlias(e, a, f, b)'
  BY DEF Exclusive, Page
<1>1. /\ m'.pte[t][va] = x
      /\ \A g \in Envs, vb \in Addr : g # t \/ vb # va => m'.pte[g][vb] = m.pte[g][vb]
  BY DEF PteSet
<1>2. CASE e = t /\ a = va
  BY <1>1, <1>2 DEF Page
<1>3. CASE f = t /\ b = va
  <2>1. MayAlias(f, b, e, a)'
    BY <1>1, <1>3 DEF Page
  <2> QED
    BY <2>1, AliasSym
<1>4. CASE ~(e = t /\ a = va) /\ ~(f = t /\ b = va)
  <2>1. m'.pte[e][a] = m.pte[e][a] /\ m'.pte[f][b] = m.pte[f][b]
    BY <1>1, <1>4
  <2>2. MayAlias(e, a, f, b)
    BY <2>1 DEF IInv, Exclusive, Page
  <2>3. e = f /\ cow[e].pc = "unmap" /\ {a, b} = {"UCOW", cow[e].va}
          => cow'[e].pc = "unmap" /\ {a, b} = {"UCOW", cow'[e].va}
    BY <1>4
  <2> QED
    BY <2>1, <2>2, <2>3 DEF MayAlias, Window, Perm
<1> QED
  BY <1>2, <1>3, <1>4

LEMMA SlotStep ==
  ASSUME IInv, NEW t \in Envs, NEW va \in Addr, NEW x, PteSet(m, m', t, va, x), Kept(m, m'),
         Sound(m, {})', Dirs', OtherTypes', UNCHANGED <<status, entry, fk>>,
         status[t] = "RUNNABLE", x.perm # {COW},
         x.page # 0 => x.perm \in {{D}, {D, LIB}} /\ (va = "UCOW" => x.perm = {D}),
         CowOf(t)', \A f \in Envs : f # t => cow'[f] = cow[f],
         fk[t].pc = "dup" =>
           LET vi == AddrSeq[fk[t].i]
           IN vi # va /\ (cow'[t].pc # "idle" => cow'[t].va # vi),
         \A f \in Envs, vb \in Range(Data) : f # t \/ vb # va => want'[f][vb] = want[f][vb],
         va \in Range(Data) => PrivateAt(t, va)',
         Exclusive'
  PROVE  IInv'
<1>1. /\ m'.pte[t][va] = x
      /\ \A f \in Envs, vb \in Addr : Page(f, vb) # 0 => m'.mem[Page(f, vb)] = m.mem[Page(f, vb)]
      /\ \A f \in Envs, vb \in Addr : f # t \/ vb # va =>
           /\ m'.pte[f][vb] = m.pte[f][vb] /\ View(m', f, vb) = View(m, f, vb)
           /\ Shared(m', f, vb) = Shared(m, f, vb)
  BY Elsewhere
<1>2. Kinds'
  <2> SUFFICES ASSUME NEW f \in Envs, NEW vb \in Addr, m'.pte[f][vb].page # 0
               PROVE  /\ m'.pte[f][vb].perm \in {{D}, {COW}, {D, LIB}}
                      /\ vb = "UCOW" => m'.pte[f][vb].perm = {D}
    BY DEF Kinds, Page, Perm
  <2>1. CASE f = t /\ vb = va
    BY <1>1, <2>1
  <2>2. CASE f # t \/ vb # va
    BY <1>1, <2>2 DEF IInv, Kinds, Page, Perm
  <2> QED
    BY <2>1, <2>2
<1>3. Forks'
  <2> SUFFICES ASSUME NEW e \in Envs PROVE InFork(e)'
    BY DEF Forks
  <2>1. fk[e].pc # "idle" => Forker(e)' /\ fk[e].child # t /\ fk[e].child \in Envs
    BY ForkerStays, Children DEF IInv, Forks, InFork, Forker
  <2>2. fk[e].pc = "dup" => /\ AddrSeq[fk[e].i] \in Addr
                            /\ cow[e].pc # "idle" => cow[e].va # AddrSeq[fk[e].i]
    BY AddrFacts DEF IInv, Forks, InFork, InDup
  <2>3. fk[e].pc = "dup" => /\ m'.pte[e][AddrSeq[fk[e].i]] = m.pte[e][AddrSeq[fk[e].i]]
                            /\ cow'[e].pc # "idle" => cow'[e].va # AddrSeq[fk[e].i]
    BY <1>1, <2>2
  <2>4. fk[e].pc = "status" => entry[fk[e].child]
    BY DEF IInv, Forks, InFork
  <2>5. fk[e].pc # "idle" => \A vb \in Addr : m'.pte[fk[e].child][vb] = m.pte[fk[e].child][vb]
    BY <1>1, <2>1
  <2> QED
    BY <2>1, <2>3, <2>4, <2>5, ForkStays
<1>4. Cows'
  <2> SUFFICES ASSUME NEW e \in Envs, e # t PROVE CowOf(e)'
    BY DEF Cows
  <2>1. cow[e].pc # "idle" => status[e] = "RUNNABLE"
    BY DEF IInv, Cows, CowOf, InCow
  <2> QED
    BY <1>1, <2>1, CowStays
<1>5. Handled'
  <2> SUFFICES ASSUME NEW f \in Envs, NEW vb \in Addr, status[f] = "RUNNABLE",
                      m'.pte[f][vb].perm = {COW}
               PROVE  entry[f]
    BY DEF Handled, Perm
  <2>1. m'.pte[f][vb] = m.pte[f][vb]
    BY <1>1
  <2> QED
    BY <2>1 DEF IInv, Handled, Perm
<1>6. Private'
  <2> SUFFICES ASSUME NEW e \in Envs, NEW vb \in Range(Data), e # t \/ vb # va
               PROVE  PrivateAt(e, vb)'
    BY DEF Private
  <2>1. vb \in Addr
    BY AddrFacts
  <2>2. Child(e)' = Child(e) /\ \A f \in Envs : Window(f, vb, e)' = Window(f, vb, e)
    BY DEF Child, Window
  <2>3. /\ View(m', e, vb) = View(m, e, vb) /\ Shared(m', e, vb) = Shared(m, e, vb)
        /\ want'[e][vb] = want[e][vb]
    BY <1>1, <2>1
  <2> QED
    BY <2>2, <2>3, PrivateStays
<1> QED
  BY <1>2, <1>3, <1>4, <1>5, <1>6 DEF IInv

(* A page nobody had is mapped. *)
LEMMA FreshExclusive ==
  ASSUME IInv, NEW t \in Envs, NEW va \in Addr, NEW p \in Pages, NEW perm, m.pp_ref[p] = 0,
         PteSet(m, m', t, va, [page |-> p, perm |-> perm]),
         UNCHANGED fk, \A f \in Envs : f # t => cow'[f] = cow[f], cow[t].pc # "unmap"
  PROVE  Exclusive'
<1> DEFINE x == [page |-> p, perm |-> perm]
<1>1. x.page = p
  OBVIOUS
<1>2. PteSet(m, m', t, va, x)
  OBVIOUS
<1> HIDE DEF x
<1>3. \A f \in Envs, vb \in Addr : Page(f, vb) # x.page
  <2>1. \A f \in Envs, vb \in Addr : Page(f, vb) # 0 => m.pp_ref[Page(f, vb)] # 0
    BY StateFacts
  <2>2. p # 0
    BY SizeFacts
  <2> QED
    BY <1>1, <2>1, <2>2
<1> QED
  BY <1>2, <1>3, SlotExclusive

LEMMA MissStep ==
  ASSUME Enough, IInv, NEW e \in Envs, NEW va \in Addr, tlb_miss_entry(e, va)
  PROVE  IInv'
<1> DEFINE n == KsegMiss(m, e, PDX(va))
<1>1. Sound(m, {}) /\ PDX(va) \in Tables /\ status[e] = "RUNNABLE"
  BY AddrFacts DEF IInv, tlb_miss_entry, Runs
<1>2. Sound(n, {}) /\ n.pte = m.pte /\ Alike(m, n, e)
  BY <1>1, KsegSound
<1>3. m' = [n EXCEPT !.tlb[e][va] = n.pte[e][va]]
  BY DEF tlb_miss_entry
<1> HIDE DEF n
<1>4. /\ Sound(m', {}) /\ m'.mem = n.mem /\ m'.pte = n.pte /\ m'.pt = n.pt /\ m'.pgdir = n.pgdir
  BY <1>2, <1>3, LoadSound
<1>5. UNCHANGED <<status, parent, entry, fk, cow, want, left>>
  BY DEF tlb_miss_entry
<1>6. OtherTypes'
  BY <1>5 DEF IInv, OtherTypes
<1>7. Alike(m, m', e)
  BY <1>2, <1>4 DEF Alike, Kept, OthersTables
<1>8. Dirs' /\ Sound(m, {})'
  BY <1>1, <1>4, <1>5, <1>7, DirsStay
<1> QED
  BY <1>2, <1>4, <1>5, <1>6, <1>7, <1>8, Quiet DEF Alike

LEMMA EvictStep ==
  ASSUME IInv, NEW e \in Envs, NEW x \in Addr \cup Tables, Evict(e, x)
  PROVE  IInv'
<1>1. Sound(m, {}) /\ m' = tlb_invalidate(m, e, x)
  BY DEF IInv, Evict, tlb_invalidate
<1>2. /\ Sound(m', {}) /\ m'.mem = m.mem /\ m'.pp_ref = m.pp_ref
      /\ m'.pte = m.pte /\ m'.pt = m.pt /\ m'.pgdir = m.pgdir
  BY <1>1, InvalidateSound
<1>3. UNCHANGED <<status, parent, entry, fk, cow, want>>
  BY DEF Evict
<1>4. OtherTypes'
  <2>1. left \in [calls : 0..NCALL, evicts : 0..NEVICT] /\ NEVICT \in Nat
    BY MemoryAssumption DEF IInv, OtherTypes
  <2>2. left' \in [calls : 0..NCALL, evicts : 0..NEVICT]
    BY <2>1 DEF Evict
  <2> QED
    BY <1>3, <2>2 DEF IInv, OtherTypes
<1>5. Dirs' /\ Kept(m, m') /\ Sound(m, {})'
  BY <1>2, <1>3 DEF IInv, Dirs, Kept
<1> QED
  BY <1>2, <1>3, <1>4, <1>5, Quiet

LEMMA RefillStep ==
  ASSUME Enough, IInv, NEW e \in Envs, NEW va \in Addr, handle_tlb(e, va)
  PROVE  IInv'
<1>1. Sound(m, {}) /\ m' = _do_tlb_refill(m, e, va) /\ status[e] = "RUNNABLE" /\ Touches(e, va)
  BY DEF IInv, handle_tlb, Runs
<1>2. UNCHANGED <<status, parent, entry, fk, cow, want, left>>
  BY DEF handle_tlb
<1>3. OtherTypes'
  BY <1>2 DEF IInv, OtherTypes
<1>4. CASE Sound(m', {}) /\ m'.pte = m.pte /\ m'.mem = m.mem /\ Alike(m, m', e)
  <2>1. Dirs' /\ Sound(m, {})'
    BY <1>1, <1>2, <1>4, DirsStay
  <2> QED
    BY <1>2, <1>3, <1>4, <2>1, Quiet DEF Alike
<1>5. ASSUME m.pte[e][va].page = 0,
             NEW p \in Pages, m.pp_ref[p] = 0, Maps(m, m', e, va, p, {D}), m'.mem[p] = Clear
      PROVE  IInv'
  <2> DEFINE x == [page |-> p, perm |-> {D}]
  <2>1. x.page = p /\ x.perm = {D} /\ x.perm # {COW} /\ PteSet(m, m', e, va, x)
    BY <1>5 DEF Maps, D, COW
  <2>2. Sound(m, {})' /\ Kept(m, m') /\ Alike(m, m', e)
    BY <1>5 DEF Maps, Alike
  <2>3. Dirs'
    BY <1>1, <1>2, <2>2, DirsStay
  <2>4. cow[e].pc = "idle" /\ va # "UCOW"
    <3>1. cow[e].pc \in CopyPcs => Page(e, va) # 0
      BY <1>1 DEF Touches, CopyPcs, IInv, Cows, CowOf, InCow
    <3> QED
      BY <1>1, <1>5, <3>1 DEF Touches, User, Page
  <2>5. Exclusive'
    BY <1>2, <1>5, <2>1, <2>4, FreshExclusive
  <2> HIDE DEF x
  <2>6. m'.pte[e][va] = x /\ \A vb \in Addr : vb # va => m'.pte[e][vb] = m.pte[e][vb]
    BY <2>1 DEF PteSet
  <2>7. CowOf(e)'
    <3>1. "UCOW" \in Addr /\ Unmapped(m, e, "UCOW")
      BY <2>4, AddrFacts DEF IInv, Cows, CowOf
    <3> QED
      BY <1>2, <2>4, <2>6, <3>1 DEF CowOf, Unmapped
  <2>8. fk[e].pc = "dup" => AddrSeq[fk[e].i] # va
    BY <1>5 DEF IInv, Forks, InFork, InDup, Page
  <2>9. va \in Range(Data) => PrivateAt(e, va)'
    <3> SUFFICES ASSUME va \in Range(Data) PROVE View(m', e, va) = want[e][va]
      BY <1>2 DEF PrivateAt
    <3>1. PrivateAt(e, va) /\ m.pte[e][va] = NoPte
      BY <1>5, StateFacts DEF IInv, Private, Page
    <3>2. \A f \in Envs : ~Window(f, va, e)
      BY <1>1, Children
    <3>3. want[e][va] = Clear
      BY <1>1, <3>1, <3>2 DEF PrivateAt, Shared, View, NoPte
    <3>4. p # 0
      BY SizeFacts
    <3> QED
      BY <1>5, <2>1, <2>6, <3>3, <3>4 DEF View
  <2> QED
    BY <1>1, <1>2, <1>3, <2>1, <2>2, <2>3, <2>4, <2>5, <2>7, <2>8, <2>9, SlotStep
<1> QED
  BY <1>1, <1>4, <1>5, RefillSound

LEMMA CallBound ==
  ASSUME left \in [calls : 0..NCALL, evicts : 0..NEVICT], Call
  PROVE  left' \in [calls : 0..NCALL, evicts : 0..NEVICT]
<1>1. NCALL \in Nat
  BY MemoryAssumption
<1> QED
  BY <1>1 DEF Call

(* The bound on calls, and the types of what a call of the program changes. *)
LEMMA CallTypes ==
  ASSUME IInv, Call, NEW e \in Envs, NEW va \in Addr, want' = [want EXCEPT ![e][va] = Clear],
         UNCHANGED <<status, parent, entry, fk, cow>>
  PROVE  /\ OtherTypes' /\ want'[e][va] = Clear
         /\ \A f \in Envs, vb \in Addr : f # e \/ vb # va => want'[f][vb] = want[f][vb]
<1>1. /\ left \in [calls : 0..NCALL, evicts : 0..NEVICT] /\ NCALL \in Nat
      /\ want \in [Envs -> [Addr -> [Halves -> {0} \cup Stores]]]
  BY MemoryAssumption DEF IInv, OtherTypes
<1>2. left' \in [calls : 0..NCALL, evicts : 0..NEVICT]
  BY <1>1, CallBound
<1>3. want' \in [Envs -> [Addr -> [Halves -> {0} \cup Stores]]]
  BY <1>1, PteFacts
<1> QED
  BY <1>1, <1>2, <1>3 DEF IInv, OtherTypes

LEMMA MemAllocStep ==
  ASSUME Enough, IInv, NEW e \in Envs, NEW va \in Addr, NEW perm \in ProgPerms,
         MemAlloc(e, va, perm)
  PROVE  IInv'
<1>1. /\ Sound(m, {}) /\ status[e] = "RUNNABLE" /\ cow[e].pc = "idle" /\ fk[e].pc = "idle"
      /\ va # "UCOW" /\ m' = sys_mem_alloc(m, e, va, perm) /\ Call
      /\ want' = [want EXCEPT ![e][va] = Clear] /\ UNCHANGED <<status, parent, entry, fk, cow>>
  BY DEF IInv, MemAlloc, Calls, User, Runs
<1>2. perm \in Perms /\ perm \in {{D}, {D, LIB}} /\ perm # {COW}
  BY DEF ProgPerms, Perms, D, LIB, COW
<1>3. PICK p \in Pages : m.pp_ref[p] = 0 /\ Maps(m, m', e, va, p, perm) /\ m'.mem[p] = Clear
  BY <1>1, <1>2, MemAllocSound
<1> DEFINE x == [page |-> p, perm |-> perm]
<1>4. x.page = p /\ x.perm = perm /\ PteSet(m, m', e, va, x)
  BY <1>3 DEF Maps
<1>5. Sound(m, {})' /\ Kept(m, m') /\ Alike(m, m', e)
  BY <1>3 DEF Maps, Alike
<1>6. Dirs'
  BY <1>1, <1>5, DirsStay
<1>7. /\ OtherTypes' /\ want'[e][va] = Clear
      /\ \A f \in Envs, vb \in Addr : f # e \/ vb # va => want'[f][vb] = want[f][vb]
  BY <1>1, CallTypes
<1>8. Exclusive'
  BY <1>1, <1>3, <1>4, FreshExclusive
<1> HIDE DEF x
<1>9. m'.pte[e][va] = x /\ \A vb \in Addr : vb # va => m'.pte[e][vb] = m.pte[e][vb]
  BY <1>4 DEF PteSet
<1>10. CowOf(e)'
  <2>1. "UCOW" \in Addr /\ Unmapped(m, e, "UCOW")
    BY <1>1, AddrFacts DEF IInv, Cows, CowOf
  <2> QED
    BY <1>1, <1>9, <2>1 DEF CowOf, Unmapped
<1>11. PrivateAt(e, va)'
  <2>1. p # 0
    BY SizeFacts
  <2> QED
    BY <1>3, <1>4, <1>7, <1>9, <2>1 DEF PrivateAt, View
<1>12. \A vb \in Range(Data) : vb \in Addr
  BY AddrFacts
<1>13. \A f \in Envs, vb \in Range(Data) : f # e \/ vb # va => want'[f][vb] = want[f][vb]
  BY <1>7, <1>12
<1> QED
  BY <1>1, <1>2, <1>4, <1>5, <1>6, <1>7, <1>8, <1>10, <1>11, <1>13, SlotStep

LEMMA MemUnmapStep ==
  ASSUME IInv, NEW e \in Envs, NEW va \in Addr, MemUnmap(e, va)
  PROVE  IInv'
<1>1. /\ Sound(m, {}) /\ status[e] = "RUNNABLE" /\ cow[e].pc = "idle" /\ fk[e].pc = "idle"
      /\ m' = page_remove(m, e, va) /\ Call
      /\ want' = [want EXCEPT ![e][va] = Clear] /\ UNCHANGED <<status, parent, entry, fk, cow>>
  BY DEF IInv, MemUnmap, Calls, User, Runs, sys_mem_unmap
<1>2. /\ Sound(m', {}) /\ PteSet(m, m', e, va, NoPte)
      /\ m'.mem = m.mem /\ m'.pt = m.pt /\ m'.pgdir = m.pgdir
  BY <1>1, RemoveSound
<1>3. NoPte.page = 0 /\ NoPte.perm # {COW}
  BY DEF NoPte
<1>4. Sound(m, {})' /\ Kept(m, m') /\ Alike(m, m', e)
  BY <1>2 DEF Alike, Kept, OthersTables
<1>5. Dirs'
  BY <1>1, <1>4, DirsStay
<1>6. /\ OtherTypes' /\ want'[e][va] = Clear
      /\ \A f \in Envs, vb \in Addr : f # e \/ vb # va => want'[f][vb] = want[f][vb]
  BY <1>1, CallTypes
<1>7. Exclusive'
  BY <1>1, <1>2, <1>3, SlotExclusive
<1>8. m'.pte[e][va] = NoPte /\ \A vb \in Addr : vb # va => m'.pte[e][vb] = m.pte[e][vb]
  BY <1>2 DEF PteSet
<1>9. CowOf(e)'
  <2>1. "UCOW" \in Addr /\ Unmapped(m, e, "UCOW")
    BY <1>1, AddrFacts DEF IInv, Cows, CowOf
  <2> QED
    BY <1>1, <1>8, <2>1 DEF CowOf, Unmapped
<1>10. PrivateAt(e, va)'
  BY <1>3, <1>6, <1>8 DEF PrivateAt, View
<1>11. \A vb \in Range(Data) : vb \in Addr
  BY AddrFacts
<1>12. \A f \in Envs, vb \in Range(Data) : f # e \/ vb # va => want'[f][vb] = want[f][vb]
  BY <1>6, <1>11
<1> QED
  BY <1>1, <1>2, <1>3, <1>4, <1>5, <1>6, <1>7, <1>9, <1>10, <1>12, SlotStep

LEMMA MemShareStep ==
  ASSUME Enough, IInv, NEW e \in Envs, NEW va \in Addr, NEW dstva \in Addr, MemShare(e, va, dstva)
  PROVE  IInv'
<1> DEFINE p == Page(e, va)
           perm == Perm(e, va)
           x == [page |-> p, perm |-> perm]
<1>1. /\ Sound(m, {}) /\ status[e] = "RUNNABLE" /\ cow[e].pc = "idle" /\ fk[e].pc = "idle"
      /\ dstva # "UCOW" /\ LIB \in perm /\ Call
      /\ m' = sys_mem_map(m, e, va, e, dstva, perm)
      /\ want' = [want EXCEPT ![e][dstva] = Clear] /\ UNCHANGED <<status, parent, entry, fk, cow>>
  BY DEF IInv, MemShare, Calls, User, Runs, Shared, Perm
<1>2. p # 0 /\ perm = {D, LIB} /\ perm \in Perms
  <2>1. Page(e, va) = 0 => Perm(e, va) = {}
    <3>1. Page(e, va) = 0 => m.pte[e][va] = NoPte
      BY StateFacts
    <3> QED
      BY <3>1 DEF Perm, NoPte
  <2>2. Page(e, va) # 0 => Perm(e, va) \in {{D}, {COW}, {D, LIB}}
    BY DEF IInv, Kinds
  <2> QED
    BY <1>1, <2>1, <2>2 DEF D, COW, LIB, Perms
<1>3. Maps(m, m', e, dstva, p, perm)
  BY <1>1, <1>2, MemMapSound DEF Page
<1>4. x.page = p /\ x.perm = {D, LIB} /\ x.perm # {COW} /\ PteSet(m, m', e, dstva, x)
  BY <1>2, <1>3 DEF Maps, D, LIB, COW
<1>5. Sound(m, {})' /\ Kept(m, m') /\ Alike(m, m', e)
  BY <1>3 DEF Maps, Alike
<1>6. Dirs'
  BY <1>1, <1>5, DirsStay
<1>7. /\ OtherTypes' /\ want'[e][dstva] = Clear
      /\ \A f \in Envs, vb \in Addr : f # e \/ vb # dstva => want'[f][vb] = want[f][vb]
  BY <1>1, CallTypes
<1> HIDE DEF x, p, perm
<1>8. /\ m'.pte[e][dstva] = x
      /\ \A f \in Envs, vb \in Addr : f # e \/ vb # dstva => m'.pte[f][vb] = m.pte[f][vb]
  BY <1>4 DEF PteSet
<1>9. Exclusive'
  <2>1. ASSUME NEW f \in Envs, NEW vb \in Addr, f # e \/ vb # dstva, Page(f, vb) = x.page
        PROVE  MayAlias(e, dstva, f, vb)'
    <3>1. Perm(f, vb) = {D, LIB}
      <4>1. CASE f = e /\ vb = va
        BY <1>2, <4>1 DEF perm
      <4>2. CASE ~(f = e /\ vb = va)
        <5>1. MayAlias(e, va, f, vb)
          BY <1>2, <1>4, <2>1, <4>2 DEF IInv, Exclusive, p
        <5>2. ~Window(e, va, f) /\ ~Window(f, vb, e)
          BY <1>1, Children DEF Window
        <5>3. Perm(e, va) = {D, LIB} /\ Perm(e, va) # {COW}
          BY <1>2 DEF perm, D, LIB, COW
        <5> QED
          BY <1>1, <5>1, <5>2, <5>3 DEF MayAlias
      <4> QED
        BY <4>1, <4>2
    <3> QED
      BY <1>4, <1>8, <2>1, <3>1 DEF MayAlias, Perm
  <2> QED
    BY <1>1, <1>4, <2>1, SlotExclusive
<1>10. CowOf(e)'
  <2>1. "UCOW" \in Addr /\ Unmapped(m, e, "UCOW")
    BY <1>1, AddrFacts DEF IInv, Cows, CowOf
  <2> QED
    BY <1>1, <1>8, <2>1 DEF CowOf, Unmapped
<1>11. PrivateAt(e, dstva)'
  <2>1. Shared(m', e, dstva)
    BY <1>4, <1>8 DEF Shared
  <2> QED
    BY <2>1 DEF PrivateAt
<1>12. \A vb \in Range(Data) : vb \in Addr
  BY AddrFacts
<1>13. \A f \in Envs, vb \in Range(Data) : f # e \/ vb # dstva => want'[f][vb] = want[f][vb]
  BY <1>7, <1>12
<1> QED
  BY <1>1, <1>4, <1>5, <1>6, <1>7, <1>9, <1>10, <1>11, <1>13, SlotStep

----------------------------------------------------------------------------
(* cow_entry *)

LEMMA CowAllocStep ==
  ASSUME Enough, IInv, NEW e \in Envs, CowAlloc(e)
  PROVE  IInv'
<1>0. PICK va \in Addr : va = cow[e].va
  BY StateFacts
<1>1. /\ Sound(m, {}) /\ status[e] = "RUNNABLE" /\ cow[e].pc = "alloc"
      /\ UNCHANGED <<status, parent, entry, fk, want, left>>
  BY DEF IInv, CowAlloc, Runs
<1>2. /\ va # "UCOW" /\ Page(e, va) # 0 /\ Perm(e, va) = {COW} /\ va \in Addr /\ "UCOW" \in Addr
  BY <1>0, <1>1, AddrFacts DEF IInv, Cows, CowOf, InCow
<1>3. PICK perm \in Perms : perm = {D}
  BY DEF Perms
<1>4. (Perm(e, va) \ {COW}) \cup {D} = perm
  BY <1>2, <1>3
<1>5. /\ m' = sys_mem_alloc(m, e, "UCOW", perm)
      /\ cow' = [cow EXCEPT ![e].perm = perm, ![e].pc = "copy1"]
  BY <1>0, <1>2, <1>4 DEF CowAlloc, Perm
<1>6. PICK p \in Pages : m.pp_ref[p] = 0 /\ Maps(m, m', e, "UCOW", p, perm) /\ m'.mem[p] = Clear
  BY <1>1, <1>2, <1>5, MemAllocSound
<1> DEFINE x == [page |-> p, perm |-> perm]
<1>7. x.page = p /\ x.perm = {D} /\ x.perm # {COW} /\ PteSet(m, m', e, "UCOW", x)
  BY <1>3, <1>6 DEF Maps, D, COW
<1>8. Sound(m, {})' /\ Kept(m, m') /\ Alike(m, m', e)
  BY <1>6 DEF Maps, Alike
<1>9. Dirs'
  BY <1>1, <1>8, DirsStay
<1>10. /\ cow'[e].pc = "copy1" /\ cow'[e].va = va /\ cow'[e].perm = {D}
       /\ \A f \in Envs : f # e => cow'[f] = cow[f]
  <2>1. cow \in [Envs -> [pc : {"idle", "alloc", "copy1", "copy2", "map", "unmap"},
                          va : Addr, perm : Perms]]
    BY DEF IInv, OtherTypes
  <2> QED
    BY <1>0, <1>3, <1>5, <2>1
<1>11. OtherTypes'
  BY <1>1, <1>5, ZenonT(60) DEF IInv, OtherTypes
<1>12. Exclusive'
  BY <1>1, <1>2, <1>6, <1>7, <1>10, FreshExclusive
<1> HIDE DEF x
<1>13. /\ m'.pte[e]["UCOW"] = x /\ \A vb \in Addr : vb # "UCOW" => m'.pte[e][vb] = m.pte[e][vb]
  BY <1>2, <1>7 DEF PteSet
<1>14. CowOf(e)'
  <2>1. m'.pte[e][va] = m.pte[e][va] /\ p # 0
    BY <1>2, <1>13, SizeFacts
  <2> QED
    BY <1>1, <1>2, <1>7, <1>10, <1>13, <2>1 DEF CowOf, InCow, Page, Perm
<1>15. fk[e].pc = "dup" => AddrSeq[fk[e].i] # "UCOW" /\ va # AddrSeq[fk[e].i]
  BY <1>0, <1>1, DupAddress
<1>16. "UCOW" \notin Range(Data)
  BY AddrFacts
<1> QED
  BY <1>1, <1>2, <1>7, <1>8, <1>9, <1>10, <1>11, <1>12, <1>14, <1>15, <1>16, SlotStep

LEMMA CowMapStep ==
  ASSUME Enough, IInv, NEW e \in Envs, CowMap(e)
  PROVE  IInv'
<1>0. PICK va \in Addr : va = cow[e].va
  BY StateFacts
<1>1. /\ Sound(m, {}) /\ status[e] = "RUNNABLE" /\ cow[e].pc = "map"
      /\ m' = sys_mem_map(m, e, "UCOW", e, va, cow[e].perm)
      /\ cow' = [cow EXCEPT ![e].pc = "unmap"]
      /\ UNCHANGED <<status, parent, entry, fk, want, left>>
  BY <1>0 DEF IInv, CowMap, Runs
<1>2. va \in Addr /\ "UCOW" \in Addr
  BY AddrFacts
<1>3. InCow(e)
  BY <1>1 DEF IInv, Cows, CowOf
<1>20. PICK p \in Pages : p = Page(e, "UCOW")
  BY <1>1, <1>2, <1>3, StateFacts DEF InCow
<1>4. /\ va # "UCOW" /\ Page(e, va) # 0 /\ Perm(e, va) = {COW}
      /\ p # 0 /\ cow[e].perm = {D}
      /\ m.mem[p][1] = m.mem[Page(e, va)][1] /\ m.mem[p][2] = m.mem[Page(e, va)][2]
  BY <1>0, <1>1, <1>3, <1>20 DEF InCow
<1>5. Perm(e, "UCOW") = {D}
  BY <1>2, <1>4, <1>20 DEF IInv, Kinds
<1>6. PICK perm \in Perms : perm = {D} /\ perm = cow[e].perm
  BY <1>4 DEF Perms
<1>7. Maps(m, m', e, va, p, perm)
  BY <1>1, <1>2, <1>4, <1>6, <1>20, MemMapSound DEF Page
<1> DEFINE x == [page |-> p, perm |-> perm]
<1>8. x.page = p /\ x.perm = {D} /\ x.perm # {COW} /\ PteSet(m, m', e, va, x)
  BY <1>6, <1>7 DEF Maps, D, COW
<1>9. Sound(m, {})' /\ Kept(m, m') /\ Alike(m, m', e)
  BY <1>7 DEF Maps, Alike
<1>10. Dirs'
  BY <1>1, <1>9, DirsStay
<1>11. /\ cow'[e].pc = "unmap" /\ cow'[e].va = va
       /\ \A f \in Envs : f # e => cow'[f] = cow[f]
  <2>1. cow \in [Envs -> [pc : {"idle", "alloc", "copy1", "copy2", "map", "unmap"},
                          va : Addr, perm : Perms]]
    BY DEF IInv, OtherTypes
  <2> QED
    BY <1>0, <1>1, <2>1
<1>12. OtherTypes'
  BY <1>1 DEF IInv, OtherTypes
<1>13. m.pte[e]["UCOW"] = x
  <2>1. m.pte[e]["UCOW"] = [page |-> Page(e, "UCOW"), perm |-> Perm(e, "UCOW")]
    BY <1>2, StateFacts
  <2> QED
    BY <1>5, <1>6, <1>20, <2>1
<1> HIDE DEF x
<1>14. /\ m'.pte[e][va] = x /\ m'.pte[e]["UCOW"] = x
       /\ \A f \in Envs, vb \in Addr : Page(f, vb) # 0 => m'.mem[Page(f, vb)] = m.mem[Page(f, vb)]
  BY <1>2, <1>4, <1>8, <1>9, <1>13, Elsewhere
<1>15. \A f \in Envs : ~Window(e, "UCOW", f) /\ ~Window(f, "UCOW", e)
  <2>1. fk[e].pc = "dup" => AddrSeq[fk[e].i] # "UCOW"
    BY DupAddress
  <2> QED
    BY <1>1, <1>2, <2>1, Children DEF Window
<1>16. Exclusive'
  <2>1. ASSUME NEW f \in Envs, NEW vb \in Addr, f # e \/ vb # va, Page(f, vb) = x.page
        PROVE  MayAlias(e, va, f, vb)'
    <3>1. f = e /\ vb = "UCOW"
      <4> SUFFICES ASSUME ~(f = e /\ vb = "UCOW") PROVE FALSE
        OBVIOUS
      <4>1. MayAlias(e, "UCOW", f, vb)
        BY <1>2, <1>4, <1>8, <1>20, <2>1 DEF IInv, Exclusive
      <4>2. {D} # {COW} /\ {D} # {D, LIB}
        BY DEF D, COW, LIB
      <4> QED
        BY <1>1, <1>5, <1>15, <4>1, <4>2 DEF MayAlias
    <3> QED
      BY <1>11, <3>1 DEF MayAlias
  <2> QED
    BY <1>1, <1>2, <1>8, <1>11, <2>1, SlotExclusive
<1>17. CowOf(e)'
  BY <1>1, <1>4, <1>8, <1>11, <1>14 DEF CowOf, InCow, Page
<1>18. va \in Range(Data) => PrivateAt(e, va)'
  <2> SUFFICES ASSUME va \in Range(Data) PROVE View(m', e, va) = want[e][va]
    BY <1>1 DEF PrivateAt
  <2>1. PrivateAt(e, va)
    BY DEF IInv, Private
  <2>2. \A f \in Envs : ~Window(f, va, e)
    BY <1>1, <1>2, Children
  <2>3. ~Shared(m, e, va)
    BY <1>4 DEF Shared, Perm, COW, LIB
  <2>4. want[e][va] = m.mem[Page(e, va)]
    BY <1>1, <1>4, <2>1, <2>2, <2>3 DEF PrivateAt, View, Page
  <2>5. View(m', e, va) = m.mem[p]
    BY <1>2, <1>4, <1>8, <1>14, <1>20 DEF View
  <2>6. /\ m.mem[p] \in [Halves -> {0} \cup Stores] /\ m.mem[Page(e, va)] \in [Halves -> {0} \cup Stores]
    <3>1. p \in Pages /\ Page(e, va) \in Pages
      BY <1>2, <1>4, StateFacts
    <3>2. m.mem \in [Pages -> [Halves -> {0} \cup Stores]]
      BY <1>1, Fields DEF Sound
    <3> QED
      BY <3>1, <3>2
  <2>7. m.mem[p] = m.mem[Page(e, va)]
    <3>1. \A h \in Halves : m.mem[p][h] = m.mem[Page(e, va)][h]
      BY <1>4 DEF Halves
    <3> QED
      BY <2>6, <3>1
  <2> QED
    BY <2>4, <2>5, <2>7
<1>19. fk[e].pc = "dup" => va # AddrSeq[fk[e].i]
  BY <1>0, <1>1, DupAddress
<1> QED
  BY <1>1, <1>2, <1>4, <1>8, <1>9, <1>10, <1>11, <1>12, <1>16, <1>17, <1>18, <1>19, SlotStep

LEMMA CowUnmapStep ==
  ASSUME IInv, NEW e \in Envs, CowUnmap(e)
  PROVE  IInv'
<1>1. /\ Sound(m, {}) /\ status[e] = "RUNNABLE" /\ m' = page_remove(m, e, "UCOW")
      /\ cow' = [cow EXCEPT ![e] = NotCopying]
      /\ UNCHANGED <<status, parent, entry, fk, want, left>>
  BY DEF IInv, CowUnmap, Runs, sys_mem_unmap
<1>2. "UCOW" \in Addr /\ "UCOW" \notin Range(Data)
  BY AddrFacts
<1>3. /\ Sound(m', {}) /\ PteSet(m, m', e, "UCOW", NoPte)
      /\ m'.mem = m.mem /\ m'.pt = m.pt /\ m'.pgdir = m.pgdir
  BY <1>1, <1>2, RemoveSound
<1>4. NoPte.page = 0 /\ NoPte.perm # {COW}
  BY DEF NoPte
<1>5. Sound(m, {})' /\ Kept(m, m') /\ Alike(m, m', e)
  BY <1>3 DEF Alike, Kept, OthersTables
<1>6. Dirs'
  BY <1>1, <1>5, DirsStay
<1>7. /\ OtherTypes' /\ cow'[e].pc = "idle" /\ \A f \in Envs : f # e => cow'[f] = cow[f]
  <2>1. cow \in [Envs -> [pc : {"idle", "alloc", "copy1", "copy2", "map", "unmap"},
                          va : Addr, perm : Perms]]
    BY DEF IInv, OtherTypes
  <2>2. NotCopying \in [pc : {"idle", "alloc", "copy1", "copy2", "map", "unmap"},
                        va : Addr, perm : Perms] /\ NotCopying.pc = "idle"
    BY <1>2 DEF NotCopying, Perms
  <2> QED
    BY <1>1, <2>1, <2>2 DEF IInv, OtherTypes
<1>8. Exclusive'
  BY <1>1, <1>2, <1>3, <1>4, <1>7, SlotExclusive
<1>9. CowOf(e)'
  BY <1>2, <1>3, <1>7 DEF CowOf, Unmapped, PteSet
<1>10. fk[e].pc = "dup" => AddrSeq[fk[e].i] # "UCOW"
  BY DupAddress
<1> QED
  BY <1>1, <1>2, <1>3, <1>4, <1>5, <1>6, <1>7, <1>8, <1>9, <1>10, SlotStep

----------------------------------------------------------------------------
(* Stores *)

LEMMA WriteSound ==
  ASSUME NEW mm, Sound(mm, {}), NEW p \in Pages, NEW h \in Halves, NEW v \in {0} \cup Stores
  PROVE  LET n == [mm EXCEPT !.mem[p][h] = v]
         IN /\ Sound(n, {}) /\ n.pte = mm.pte /\ n.pt = mm.pt /\ n.pgdir = mm.pgdir
            /\ n.mem[p] = [mm.mem[p] EXCEPT ![h] = v]
            /\ \A q \in Pages : q # p => n.mem[q] = mm.mem[q]
<1> DEFINE W == [mm.mem EXCEPT ![p][h] = v]
           n == [mm EXCEPT !.mem[p][h] = v]
<1>1. mm \in Memories
  BY DEF Sound
<1>2. mm.mem \in [Pages -> [Halves -> {0} \cup Stores]]
  <2> HIDE DEF W, n
  <2> QED
    BY <1>1, Fields
<1>3. /\ W \in [Pages -> [Halves -> {0} \cup Stores]]
      /\ W[p] = [mm.mem[p] EXCEPT ![h] = v] /\ \A q \in Pages : q # p => W[q] = mm.mem[q]
  BY <1>2
<1>4. n = [mm EXCEPT !.mem = W]
  OBVIOUS
<1> HIDE DEF W, n
<1>5. n \in Memories
  BY <1>1, <1>3, <1>4 DEF Memories
<1>6. /\ n.pte = mm.pte /\ n.tlb = mm.tlb /\ n.mem = W /\ n.pt = mm.pt /\ n.pgdir = mm.pgdir
      /\ n.panic = mm.panic /\ n.pp_ref = mm.pp_ref /\ n.free = mm.free
  BY <1>1, <1>4 DEF Memories
<1>7. Counts(n) /\ FreeList(n, {}) /\ Tabled(n) /\ Coherent(n) /\ ~n.panic
  BY <1>6 DEF Sound, Counts, References, FreeList, Tabled, Unmapped, Coherent
<1> QED
  BY <1>3, <1>5, <1>6, <1>7 DEF Sound, n

(* A step that changes no mapping. *)
LEMMA TablesStay ==
  ASSUME IInv, m'.pte = m.pte, UNCHANGED <<status, entry, fk>>,
         \A e \in Envs : fk[e].pc = "dup" => (cow'[e].pc # "idle" => cow'[e].va # AddrSeq[fk[e].i]),
         \A e \in Envs : cow[e].pc = "unmap" => cow'[e] = cow[e]
  PROVE  Kinds' /\ Forks' /\ Exclusive' /\ Handled'
<1>1. Kinds' /\ Handled'
  BY DEF IInv, Kinds, Handled, Page, Perm
<1>2. Forks'
  <2> SUFFICES ASSUME NEW e \in Envs PROVE InFork(e)'
    BY DEF Forks
  <2>1. fk[e].pc # "idle" => Forker(e)'
    BY ForkerStays
  <2>2. fk[e].pc = "status" => entry[fk[e].child]
    BY DEF IInv, Forks, InFork
  <2> QED
    BY <2>1, <2>2, ForkStays
<1>3. Exclusive'
  <2> SUFFICES ASSUME NEW e \in Envs, NEW f \in Envs, NEW a \in Addr, NEW b \in Addr,
                      Page(e, a) # 0, Page(e, a) = Page(f, b), ~(e = f /\ a = b)
               PROVE  MayAlias(e, a, f, b)'
    BY DEF Exclusive, Page
  <2>1. MayAlias(e, a, f, b)
    BY DEF IInv, Exclusive
  <2> QED
    BY <2>1 DEF MayAlias, Window, Perm
<1> QED
  BY <1>1, <1>2, <1>3

(* What the TLB lets through is in the page table. *)
LEMMA Hit ==
  ASSUME IInv, NEW e \in Envs, NEW va \in Addr, m.tlb[e][va].page > 0
  PROVE  m.tlb[e][va] = m.pte[e][va] /\ Page(e, va) # 0 /\ Page(e, va) \in Pages
<1>1. m.tlb[e][va] \in {Absent, m.pte[e][va]}
  BY DEF IInv, Sound, Coherent
<1>2. ~(Absent.page > 0)
  BY DEF Absent
<1>3. m.tlb[e][va] = m.pte[e][va]
  BY <1>1, <1>2
<1>4. Page(e, va) # 0
  BY <1>3 DEF Page
<1> QED
  BY <1>3, <1>4, StateFacts

LEMMA StoreStep ==
  ASSUME IInv, NEW e \in Envs, NEW va \in Addr, NEW h \in Halves, NEW v \in Stores,
         Store(e, va, h, v)
  PROVE  IInv'
<1>1. /\ Sound(m, {}) /\ status[e] = "RUNNABLE" /\ cow[e].pc = "idle" /\ va # "UCOW"
      /\ m.tlb[e][va].page > 0 /\ D \in m.tlb[e][va].perm
      /\ m' = [m EXCEPT !.mem[m.tlb[e][va].page][h] = v]
      /\ want' = IF Shared(m, e, va) THEN want ELSE [want EXCEPT ![e][va][h] = v]
      /\ UNCHANGED <<status, parent, entry, fk, cow, left>>
  BY DEF IInv, Store, User, Runs
<1>2. m.tlb[e][va] = m.pte[e][va] /\ Page(e, va) # 0 /\ Page(e, va) \in Pages
  BY <1>1, Hit
<1>3. PICK p \in Pages : p = Page(e, va) /\ p # 0 /\ m.tlb[e][va].page = p
  BY <1>2 DEF Page
<1>4. Perm(e, va) \in {{D}, {D, LIB}} /\ Perm(e, va) # {COW}
  <2>1. D \in Perm(e, va) /\ Perm(e, va) \in {{D}, {COW}, {D, LIB}}
    BY <1>1, <1>2 DEF Perm, IInv, Kinds
  <2> QED
    BY <2>1 DEF D, COW, LIB
<1>5. m' = [m EXCEPT !.mem[p][h] = v]
  BY <1>1, <1>3
<1>6. /\ Sound(m', {}) /\ m'.pte = m.pte /\ m'.pt = m.pt /\ m'.pgdir = m.pgdir
      /\ m'.mem[p] = [m.mem[p] EXCEPT ![h] = v]
      /\ \A q \in Pages : q # p => m'.mem[q] = m.mem[q]
  <2>1. Sound(m, {}) /\ v \in {0} \cup Stores
    BY <1>1
  <2> QED
    BY <1>5, <2>1, WriteSound
<1>7. Dirs' /\ Sound(m, {})'
  BY <1>1, <1>6 DEF IInv, Dirs
<1>8. want \in [Envs -> [Addr -> [Halves -> {0} \cup Stores]]]
  BY DEF IInv, OtherTypes
<1>9. /\ OtherTypes'
      /\ \A f \in Envs, vb \in Addr : f # e \/ vb # va => want'[f][vb] = want[f][vb]
      /\ ~Shared(m, e, va) => want'[e][va] = [want[e][va] EXCEPT ![h] = v]
  <2>1. want' \in [Envs -> [Addr -> [Halves -> {0} \cup Stores]]]
    BY <1>1, <1>8
  <2> QED
    BY <1>1, <1>8, <2>1 DEF IInv, OtherTypes
<1>10. Kinds' /\ Forks' /\ Exclusive' /\ Handled'
  <2>1. \A f \in Envs : fk[f].pc = "dup" => (cow[f].pc # "idle" => cow[f].va # AddrSeq[fk[f].i])
    BY DupAddress
  <2> QED
    BY <1>1, <1>6, <2>1, TablesStay
<1>11. ASSUME NEW f \in Envs, NEW vb \in Addr, Page(f, vb) = p, f # e \/ vb # va
       PROVE  /\ Perm(f, vb) = {D, LIB} \/ (Window(e, va, f) /\ va = vb)
              /\ Perm(f, vb) = {D, LIB} \/ status[f] # "RUNNABLE"
  <2>1. MayAlias(e, va, f, vb)
    BY <1>3, <1>11 DEF IInv, Exclusive
  <2>2. ~Window(f, vb, e)
    BY <1>1, Children
  <2>3. status[f] = "RUNNABLE" => ~Window(e, va, f)
    BY Children
  <2> QED
    BY <1>1, <1>4, <2>1, <2>2, <2>3 DEF MayAlias
<1>12. Cows'
  <2> SUFFICES ASSUME NEW f \in Envs PROVE CowOf(f)'
    BY DEF Cows
  <2>1. CowOf(f)
    BY DEF IInv, Cows
  <2>2. cow[f].va \in Addr /\ "UCOW" \in Addr
    BY StateFacts, AddrFacts
  <2>3. \A vb \in Addr : Page(f, vb)' = Page(f, vb) /\ Perm(f, vb)' = Perm(f, vb)
    BY <1>6 DEF Page, Perm
  <2>4. ASSUME cow[f].pc \in {"copy2", "map"}
        PROVE  /\ m'.mem[Page(f, "UCOW")] = m.mem[Page(f, "UCOW")]
               /\ m'.mem[Page(f, cow[f].va)] = m.mem[Page(f, cow[f].va)]
    <3>1. /\ status[f] = "RUNNABLE" /\ f # e
          /\ Page(f, cow[f].va) # 0 /\ Perm(f, cow[f].va) = {COW} /\ Page(f, "UCOW") # 0
      BY <1>1, <2>1, <2>4 DEF CowOf, InCow
    <3>2. Perm(f, "UCOW") = {D}
      BY <2>2, <3>1 DEF IInv, Kinds
    <3>3. {D} # {D, LIB} /\ {COW} # {D, LIB}
      BY DEF D, LIB, COW
    <3>4. Page(f, "UCOW") # p /\ Page(f, cow[f].va) # p
      BY <1>11, <2>2, <3>1, <3>2, <3>3
    <3>5. Page(f, "UCOW") \in Pages /\ Page(f, cow[f].va) \in Pages
      BY <2>2, <3>1, StateFacts
    <3> QED
      BY <1>6, <3>4, <3>5
  <2>5. cow'[f] = cow[f] /\ status'[f] = status[f]
    BY <1>1
  <2>6. cow[f].pc # "idle" => InCow(f)'
    <3> SUFFICES ASSUME cow[f].pc # "idle" PROVE InCow(f)'
      OBVIOUS
    <3>1. InCow(f)
      BY <2>1 DEF CowOf
    <3>2. m'.pte[f][cow[f].va] = m.pte[f][cow[f].va] /\ m'.pte[f]["UCOW"] = m.pte[f]["UCOW"]
      BY <1>6
    <3> QED
      BY <2>2, <2>4, <2>5, <3>1, <3>2 DEF InCow, Page, Perm
  <2> QED
    BY <1>6, <2>1, <2>5, <2>6 DEF CowOf, Unmapped
<1>13. Private'
  <2> SUFFICES ASSUME NEW f \in Envs, NEW vb \in Range(Data) PROVE PrivateAt(f, vb)'
    BY DEF Private
  <2>1. vb \in Addr
    BY AddrFacts
  <2>2. /\ Child(f)' = Child(f) /\ \A g \in Envs : Window(g, vb, f)' = Window(g, vb, f)
    BY <1>1 DEF Child, Window
  <2>3. Shared(m', f, vb) = Shared(m, f, vb)
    BY <1>6 DEF Shared
  <2>4. CASE f = e /\ vb = va
    <3>1. CASE Shared(m, e, va)
      BY <2>3, <2>4, <3>1 DEF PrivateAt
    <3>2. CASE ~Shared(m, e, va)
      <4>1. PrivateAt(e, va)
        BY <2>4 DEF IInv, Private
      <4>2. \A g \in Envs : ~Window(g, va, e)
        BY <1>1, Children
      <4>3. want[e][va] = m.mem[p]
        BY <1>1, <1>3, <3>2, <4>1, <4>2 DEF PrivateAt, View, Page
      <4>4. View(m', e, va) = m'.mem[p]
        BY <1>3, <1>6 DEF View, Page
      <4>5. View(m', e, va) = want'[e][va]
        BY <1>6, <1>9, <3>2, <4>3, <4>4
      <4> QED
        BY <2>4, <4>5 DEF PrivateAt
    <3> QED
      BY <3>1, <3>2
  <2>5. CASE ~(f = e /\ vb = va) /\ Page(f, vb) = p
    <3>1. Perm(f, vb) = {D, LIB} \/ (Window(e, va, f) /\ va = vb)
      BY <1>11, <2>1, <2>5
    <3>2. Perm(f, vb) = {D, LIB} => Shared(m, f, vb)
      BY DEF Shared, Perm
    <3> QED
      BY <2>2, <2>3, <3>1, <3>2 DEF PrivateAt
  <2>6. CASE ~(f = e /\ vb = va) /\ Page(f, vb) # p
    <3>1. Page(f, vb) # 0 => Page(f, vb) \in Pages
      BY <2>1, StateFacts
    <3>2. View(m', f, vb) = View(m, f, vb)
      BY <1>6, <2>6, <3>1 DEF View, Page
    <3>3. want'[f][vb] = want[f][vb]
      BY <1>9, <2>1, <2>6
    <3> QED
      BY <1>1, <2>2, <2>3, <3>2, <3>3, PrivateStays
  <2> QED
    BY <2>4, <2>5, <2>6
<1> QED
  BY <1>7, <1>9, <1>10, <1>12, <1>13 DEF IInv

(* memcpy: half a page goes to UCOW, which nobody else has. *)
LEMMA CowCopyStep ==
  ASSUME IInv, NEW e \in Envs, CowCopy(e)
  PROVE  IInv'
<1>0. PICK va \in Addr : va = cow[e].va
  BY StateFacts
<1>1. /\ Sound(m, {}) /\ status[e] = "RUNNABLE" /\ cow[e].pc \in {"copy1", "copy2"}
      /\ m.tlb[e][va].page > 0 /\ m.tlb[e]["UCOW"].page > 0
      /\ cow' = [cow EXCEPT ![e].pc = IF @ = "copy1" THEN "copy2" ELSE "map"]
      /\ UNCHANGED <<status, parent, entry, fk, want, left>>
  BY <1>0 DEF IInv, CowCopy, Runs, CopyPcs
<1>2. "UCOW" \in Addr
  BY AddrFacts
<1>3. /\ m.tlb[e][va] = m.pte[e][va] /\ Page(e, va) # 0 /\ Page(e, va) \in Pages
      /\ m.tlb[e]["UCOW"] = m.pte[e]["UCOW"] /\ Page(e, "UCOW") # 0 /\ Page(e, "UCOW") \in Pages
  BY <1>1, <1>2, Hit
<1>4. PICK p \in Pages : p = Page(e, "UCOW") /\ p # 0
  BY <1>3
<1>5. PICK q \in Pages : q = Page(e, va) /\ q # 0
  BY <1>3
<1>6. PICK h \in Halves : h = IF cow[e].pc = "copy1" THEN 1 ELSE 2
  BY DEF Halves
<1>7. m' = [m EXCEPT !.mem[p][h] = m.mem[q][h]]
  BY <1>0, <1>3, <1>4, <1>5, <1>6 DEF CowCopy, Page
<1>8. m.mem \in [Pages -> [Halves -> {0} \cup Stores]]
  BY <1>1, Fields DEF Sound
<1>9. PICK v \in {0} \cup Stores : v = m.mem[q][h]
  BY <1>8
<1>10. /\ Sound(m', {}) /\ m'.pte = m.pte /\ m'.pt = m.pt /\ m'.pgdir = m.pgdir
       /\ m'.mem[p] = [m.mem[p] EXCEPT ![h] = v]
       /\ \A r \in Pages : r # p => m'.mem[r] = m.mem[r]
  <2>1. Sound(m, {}) /\ m' = [m EXCEPT !.mem[p][h] = v]
    BY <1>1, <1>7, <1>9
  <2> QED
    BY <2>1, WriteSound
<1>11. Dirs' /\ Sound(m, {})'
  BY <1>1, <1>10 DEF IInv, Dirs
<1>12. cow \in [Envs -> [pc : {"idle", "alloc", "copy1", "copy2", "map", "unmap"},
                         va : Addr, perm : Perms]]
  BY DEF IInv, OtherTypes
<1>13. /\ cow'[e].va = va /\ cow'[e].perm = cow[e].perm
       /\ cow'[e].pc = IF cow[e].pc = "copy1" THEN "copy2" ELSE "map"
       /\ \A f \in Envs : f # e => cow'[f] = cow[f]
  BY <1>0, <1>1, <1>12
<1>14. OtherTypes'
  <2>1. cow' \in [Envs -> [pc : {"idle", "alloc", "copy1", "copy2", "map", "unmap"},
                           va : Addr, perm : Perms]]
    BY <1>1, <1>12
  <2> QED
    BY <1>1, <2>1 DEF IInv, OtherTypes
<1>15. Kinds' /\ Forks' /\ Exclusive' /\ Handled'
  <2>1. \A f \in Envs : fk[f].pc = "dup" => (cow[f].pc # "idle" => cow[f].va # AddrSeq[fk[f].i])
    BY DupAddress
  <2>2. \A f \in Envs : fk[f].pc = "dup" => (cow'[f].pc # "idle" => cow'[f].va # AddrSeq[fk[f].i])
    BY <1>0, <1>1, <1>13, <2>1
  <2>3. \A f \in Envs : cow[f].pc = "unmap" => cow'[f] = cow[f]
    BY <1>1, <1>13
  <2> QED
    BY <1>1, <1>10, <2>2, <2>3, TablesStay
<1>16. InCow(e)
  BY <1>1 DEF IInv, Cows, CowOf
<1>17. /\ va # "UCOW" /\ Perm(e, va) = {COW} /\ Perm(e, "UCOW") = {D} /\ cow[e].perm = {D}
       /\ cow[e].pc = "copy2" => m.mem[p][1] = m.mem[q][1]
  BY <1>0, <1>1, <1>2, <1>3, <1>4, <1>5, <1>16 DEF InCow, IInv, Kinds
<1>18. ASSUME NEW f \in Envs, NEW vb \in Addr, f # e \/ vb # "UCOW" PROVE Page(f, vb) # p
  <2> SUFFICES ASSUME Page(f, vb) = p PROVE FALSE
    OBVIOUS
  <2>1. MayAlias(e, "UCOW", f, vb)
    BY <1>2, <1>4, <1>18 DEF IInv, Exclusive
  <2>2. {D} # {COW} /\ {D} # {D, LIB}
    BY DEF D, LIB, COW
  <2>3. ~Window(e, "UCOW", f) /\ ~Window(f, "UCOW", e)
    BY DupAddress DEF Window
  <2> QED
    BY <1>1, <1>17, <2>1, <2>2, <2>3 DEF MayAlias
<1>19. q # p
  BY <1>5, <1>17, <1>18
<1>20. Cows'
  <2> SUFFICES ASSUME NEW f \in Envs PROVE CowOf(f)'
    BY DEF Cows
  <2>1. CASE f # e
    <3>1. ASSUME NEW vb \in Addr, Page(f, vb) # 0 PROVE m'.mem[Page(f, vb)] = m.mem[Page(f, vb)]
      <4>1. Page(f, vb) \in Pages /\ Page(f, vb) # p
        BY <1>18, <2>1, <3>1, StateFacts
      <4> QED
        BY <1>10, <4>1
    <3>2. cow[f].pc # "idle" => status[f] = "RUNNABLE"
      BY DEF IInv, Cows, CowOf, InCow
    <3> QED
      BY <1>1, <1>10, <1>13, <2>1, <3>1, <3>2, CowStays
  <2>2. CASE f = e
    <3>1. m'.mem[p][h] = v /\ m'.mem[q] = m.mem[q] /\ \A k \in Halves : k # h => m'.mem[p][k] = m.mem[p][k]
      BY <1>8, <1>10, <1>19
    <3>2. cow'[e].pc = "copy2" => m'.mem[p][1] = m'.mem[q][1]
      BY <1>1, <1>6, <1>9, <1>13, <3>1
    <3>3. cow'[e].pc = "map" => m'.mem[p][1] = m'.mem[q][1] /\ m'.mem[p][2] = m'.mem[q][2]
      BY <1>1, <1>6, <1>9, <1>13, <1>17, <3>1 DEF Halves
    <3>4. /\ cow'[e].pc \in {"copy2", "map"} /\ m'.pte[e][va] = m.pte[e][va]
          /\ m'.pte[e]["UCOW"] = m.pte[e]["UCOW"]
      BY <1>1, <1>10, <1>13
    <3>5. /\ m'.pte[e][va].page = q /\ m'.pte[e]["UCOW"].page = p /\ m'.pte[e][va].perm = {COW}
      BY <1>4, <1>5, <1>17, <3>4 DEF Page, Perm
    <3>6. /\ cow'[e].va = va /\ cow'[e].perm = {D} /\ status'[e] = "RUNNABLE" /\ va # "UCOW" /\ p # 0 /\ q # 0
      BY <1>1, <1>4, <1>5, <1>13, <1>17
    <3> QED
      BY <2>2, <3>2, <3>3, <3>4, <3>5, <3>6, SMTT(40) DEF CowOf, InCow, Page, Perm
  <2> QED
    BY <2>1, <2>2
<1>21. Private'
  <2> SUFFICES ASSUME NEW f \in Envs, NEW vb \in Range(Data) PROVE PrivateAt(f, vb)'
    BY DEF Private
  <2>1. vb \in Addr /\ vb # "UCOW"
    BY AddrFacts
  <2>2. /\ Child(f)' = Child(f) /\ \A g \in Envs : Window(g, vb, f)' = Window(g, vb, f)
    BY <1>1 DEF Child, Window
  <2>3. Shared(m', f, vb) = Shared(m, f, vb)
    BY <1>10 DEF Shared
  <2>4. Page(f, vb) # p /\ (Page(f, vb) # 0 => Page(f, vb) \in Pages)
    BY <1>18, <2>1, StateFacts
  <2>5. View(m', f, vb) = View(m, f, vb)
    BY <1>10, <2>4 DEF View, Page
  <2> QED
    BY <1>1, <2>2, <2>3, <2>5, PrivateStays
<1> QED
  BY <1>11, <1>14, <1>15, <1>20, <1>21 DEF IInv

LEMMA ModStep ==
  ASSUME ~Handlers, IInv, NEW e \in Envs, NEW va \in Addr, do_tlb_mod(e, va)
  PROVE  IInv'
<1>1. /\ Sound(m, {}) /\ status[e] = "RUNNABLE" /\ cow[e].pc = "idle" /\ va # "UCOW"
      /\ MayStore(e, va) /\ m.tlb[e][va].page > 0 /\ D \notin m.tlb[e][va].perm
      /\ UNCHANGED <<status, parent, entry, fk, want, left>>
  BY DEF IInv, do_tlb_mod, User, Runs
<1>2. m.tlb[e][va] = m.pte[e][va] /\ Page(e, va) # 0
  BY <1>1, Hit
<1>3. Perm(e, va) = {COW}
  <2>1. D \notin Perm(e, va) /\ Perm(e, va) \in {{D}, {COW}, {D, LIB}}
    BY <1>1, <1>2 DEF Perm, IInv, Kinds
  <2> QED
    BY <2>1
<1>4. entry[e] = TRUE
  <2>1. entry[e] /\ entry[e] \in BOOLEAN
    BY <1>1, <1>3, StateFacts DEF IInv, Handled
  <2> QED
    BY <2>1
<1>5. m' = m
  <2>1. m' = [m EXCEPT !.panic = FALSE]
    BY <1>4 DEF do_tlb_mod
  <2>2. m \in Memories /\ m.panic = FALSE
    BY StateFacts
  <2> QED
    BY <2>1, <2>2 DEF Memories
<1>6. cow' = [cow EXCEPT ![e] = [NotCopying EXCEPT !.pc = "alloc", !.va = va]]
  BY <1>4 DEF do_tlb_mod
<1>7. cow \in [Envs -> [pc : {"idle", "alloc", "copy1", "copy2", "map", "unmap"},
                        va : Addr, perm : Perms]]
  BY DEF IInv, OtherTypes
<1> DEFINE r == [NotCopying EXCEPT !.pc = "alloc", !.va = va]
<1>8. /\ r \in [pc : {"idle", "alloc", "copy1", "copy2", "map", "unmap"}, va : Addr, perm : Perms]
      /\ r.pc = "alloc" /\ r.va = va
  <2>1. NotCopying \in [pc : {"idle", "alloc", "copy1", "copy2", "map", "unmap"},
                        va : Addr, perm : Perms]
    BY AddrFacts DEF NotCopying, Perms
  <2> QED
    BY <2>1
<1>16. cow' = [cow EXCEPT ![e] = r]
  BY <1>6
<1> HIDE DEF r
<1>9. /\ cow'[e].pc = "alloc" /\ cow'[e].va = va
      /\ \A f \in Envs : f # e => cow'[f] = cow[f]
  BY <1>7, <1>8, <1>16
<1>10. OtherTypes'
  <2>2. cow' \in [Envs -> [pc : {"idle", "alloc", "copy1", "copy2", "map", "unmap"},
                           va : Addr, perm : Perms]]
    BY <1>7, <1>8, <1>16
  <2> QED
    BY <1>1, <2>2 DEF IInv, OtherTypes
<1>11. Kinds' /\ Forks' /\ Exclusive' /\ Handled'
  <2>1. ASSUME fk[e].pc = "dup" PROVE va # AddrSeq[fk[e].i]
    <3> SUFFICES ASSUME va = AddrSeq[fk[e].i] PROVE FALSE
      OBVIOUS
    <3>1. InDup(e)
      BY <2>1, DupAddress
    <3>2. fk[e].perm = {COW} /\ {COW} # {D} /\ COW \in fk[e].perm
      BY <1>3, <3>1 DEF InDup, COW, D
    <3>3. fk[e].n = 1
      BY <3>1, <3>2 DEF InDup
    <3> QED
      BY <1>1, <2>1, <3>2, <3>3 DEF MayStore
  <2>2. \A f \in Envs : fk[f].pc = "dup" => (cow[f].pc # "idle" => cow[f].va # AddrSeq[fk[f].i])
    BY DupAddress
  <2>3. \A f \in Envs : fk[f].pc = "dup" => (cow'[f].pc # "idle" => cow'[f].va # AddrSeq[fk[f].i])
    BY <1>9, <2>1, <2>2
  <2>4. \A f \in Envs : cow[f].pc = "unmap" => cow'[f] = cow[f]
    BY <1>1, <1>9
  <2> QED
    BY <1>1, <1>5, <2>3, <2>4, TablesStay
<1>12. Cows'
  <2> SUFFICES ASSUME NEW f \in Envs PROVE CowOf(f)'
    BY DEF Cows
  <2>1. CASE f # e
    <3>1. cow[f].pc # "idle" => status[f] = "RUNNABLE"
      BY DEF IInv, Cows, CowOf, InCow
    <3> QED
      BY <1>1, <1>5, <1>9, <2>1, <3>1, CowStays
  <2>2. CASE f = e
    <3>1. Unmapped(m, e, "UCOW")
      BY <1>1 DEF IInv, Cows, CowOf
    <3> QED
      BY <1>1, <1>2, <1>3, <1>5, <1>9, <2>2, <3>1 DEF CowOf, InCow, Page, Perm, Unmapped
  <2> QED
    BY <2>1, <2>2
<1>13. Private' /\ Dirs' /\ Sound(m, {})'
  <2>1. Private /\ Dirs
    BY DEF IInv
  <2>2. ASSUME NEW f \in Envs, NEW vb \in Range(Data) PROVE PrivateAt(f, vb)'
    <3>1. /\ Child(f)' = Child(f) /\ \A g \in Envs : Window(g, vb, f)' = Window(g, vb, f)
      BY <1>1 DEF Child, Window
    <3> QED
      BY <1>1, <1>5, <3>1, PrivateStays
  <2> QED
    BY <1>1, <1>5, <2>1, <2>2 DEF Private, Dirs
<1> QED
  BY <1>10, <1>11, <1>12, <1>13 DEF IInv

----------------------------------------------------------------------------
(* fork *)

ForkRecs ==
  [pc : {"idle", "scan", "dup", "entry", "status"}, child : 0..NENV, i : 0..Len(AddrSeq),
   perm : Perms, n : 0..2]

LEMMA AdvanceFacts ==
  ASSUME NEW f \in ForkRecs, f.i \in 1..Len(AddrSeq)
  PROVE  LET g == Advance(f)
         IN /\ g \in ForkRecs /\ g.child = f.child /\ g.n = 0 /\ g.pc \in {"scan", "entry"}
            /\ g.pc = "scan" => g.i = f.i + 1 /\ f.i < Len(AddrSeq)
<1>1. Len(AddrSeq) \in Nat
  BY AddrFacts
<1>2. PICK i \in 0..Len(AddrSeq) : i = IF f.i = Len(AddrSeq) THEN 0 ELSE f.i + 1
  BY <1>1
<1>3. PICK pc \in {"idle", "scan", "dup", "entry", "status"} :
        pc = IF f.i = Len(AddrSeq) THEN "entry" ELSE "scan"
  OBVIOUS
<1>4. PICK n \in 0..2 : n = 0
  OBVIOUS
<1>5. PICK perm \in Perms : perm = {}
  BY DEF Perms
<1>6. Advance(f) = [f EXCEPT !.n = n, !.perm = perm, !.i = i, !.pc = pc]
  BY <1>2, <1>3, <1>4, <1>5 DEF Advance
<1>7. /\ Advance(f) \in ForkRecs /\ Advance(f).child = f.child /\ Advance(f).n = n
      /\ Advance(f).pc = pc /\ Advance(f).i = i
  <2> DEFINE P == {"idle", "scan", "dup", "entry", "status"}
             C == 0..NENV
             I == 0..Len(AddrSeq)
             N == 0..2
  <2>1. ForkRecs = [pc : P, child : C, i : I, perm : Perms, n : N]
    BY DEF ForkRecs
  <2>2. f \in ForkRecs /\ pc \in P /\ i \in I /\ n \in N
    OBVIOUS
  <2> HIDE DEF P, C, I, N
  <2> QED
    BY <1>6, <2>1, <2>2
<1>8. pc \in {"scan", "entry"} /\ (pc = "scan" => i = f.i + 1 /\ f.i < Len(AddrSeq))
  BY <1>1, <1>2, <1>3
<1> QED
  BY <1>4, <1>7, <1>8

(* fork goes on and changes no mapping. *)
LEMMA ForkMove ==
  ASSUME IInv, NEW e \in Envs, m' = m, OtherTypes', UNCHANGED <<status, cow, want>>,
         \A f \in Envs : entry[f] => entry'[f],
         \A f \in Envs : f # e => fk'[f] = fk[f],
         fk[e].pc \notin {"idle", "dup"}, fk'[e].pc # "idle", fk'[e].child = fk[e].child,
         fk'[e].pc = "dup" => fk'[e].n # 2,
         fk'[e].pc = "scan" => InScan(e)', fk'[e].pc = "dup" => InDup(e)',
         fk'[e].pc = "status" => entry'[fk[e].child]
  PROVE  IInv'
<1>1. Sound(m, {})' /\ Dirs' /\ Kinds' /\ Handled'
  BY DEF IInv, Dirs, Kinds, Handled, Page, Perm
<1>2. Forks'
  <2> SUFFICES ASSUME NEW f \in Envs PROVE InFork(f)'
    BY DEF Forks
  <2>1. \A g \in Envs : /\ (fk'[g].pc = "idle") = (fk[g].pc = "idle")
                        /\ fk[g].pc # "idle" => fk'[g].child = fk[g].child
    OBVIOUS
  <2>2. fk[f].pc # "idle" => Forker(f)'
    <3> SUFFICES ASSUME fk[f].pc # "idle" PROVE Forker(f)'
      OBVIOUS
    <3>1. Forker(f)
      BY DEF IInv, Forks, InFork
    <3> QED
      BY <2>1, <3>1 DEF Forker
  <2>3. CASE f = e
    BY <2>2, <2>3 DEF InFork
  <2>4. CASE f # e
    <3>1. fk[f].pc = "dup" => (cow[f].pc # "idle" => cow[f].va # AddrSeq[fk[f].i])
      BY DupAddress
    <3>2. fk[f].pc = "status" => entry[fk[f].child] /\ fk[f].child \in Envs
      BY DEF IInv, Forks, InFork, Forker
    <3> QED
      BY <2>2, <2>4, <3>1, <3>2, ForkStays
  <2> QED
    BY <2>3, <2>4
<1>3. Cows'
  BY DEF IInv, Cows, CowOf, InCow, Page, Perm
<1>4. \A g, h, vb : g \in Envs => Window(g, vb, h)' = Window(g, vb, h)
  <2>1. \A h, vb : Window(e, vb, h)' = Window(e, vb, h)
    BY DEF Window
  <2> QED
    BY <2>1 DEF Window
<1>5. Exclusive'
  <2> SUFFICES ASSUME NEW g \in Envs, NEW h \in Envs, NEW a \in Addr, NEW b \in Addr,
                      Page(g, a) # 0, Page(g, a) = Page(h, b), ~(g = h /\ a = b)
               PROVE  MayAlias(g, a, h, b)'
    BY DEF Exclusive, Page
  <2>1. MayAlias(g, a, h, b)
    BY DEF IInv, Exclusive
  <2> QED
    BY <1>4, <2>1 DEF MayAlias, Perm
<1>6. Private'
  <2> SUFFICES ASSUME NEW f \in Envs, NEW vb \in Range(Data) PROVE PrivateAt(f, vb)'
    BY DEF Private
  <2>1. Child(f)' = Child(f)
    BY DEF Child
  <2> QED
    BY <1>4, <2>1, PrivateStays
<1> QED
  BY <1>1, <1>2, <1>3, <1>5, <1>6 DEF IInv

LEMMA ForkScanStep ==
  ASSUME IInv, NEW e \in Envs, ForkScan(e)
  PROVE  IInv'
<1>1. /\ fk[e].pc = "scan" /\ cow[e].pc = "idle"
      /\ UNCHANGED <<m, status, parent, entry, cow, want, left>>
  BY DEF ForkScan, Forking, User
<1>2. InScan(e)
  BY <1>1 DEF IInv, Forks, InFork
<1>3. PICK i \in 1..Len(AddrSeq) : i = fk[e].i
  BY <1>2 DEF InScan
<1>4. PICK va \in Addr : va = AddrSeq[i]
  BY AddrFacts
<1>5. fk \in [Envs -> ForkRecs] /\ fk[e] \in ForkRecs
  BY DEF IInv, OtherTypes, ForkRecs
<1>6. fk' = [fk EXCEPT ![e] = IF Page(e, va) = 0 THEN Advance(fk[e])
                              ELSE [fk[e] EXCEPT !.pc = "dup", !.n = 1, !.perm = Perm(e, va)]]
  BY <1>3, <1>4 DEF ForkScan, Page, Perm
<1>7. ASSUME NEW r \in ForkRecs, fk' = [fk EXCEPT ![e] = r], r.child = fk[e].child, r.n # 2,
             r.pc \in {"scan", "dup", "entry"}, r.pc = "scan" => InScan(e)', r.pc = "dup" => InDup(e)'
      PROVE  IInv'
  <2>1. fk'[e] = r /\ \A f \in Envs : f # e => fk'[f] = fk[f]
    BY <1>5, <1>7
  <2>2. fk' \in [Envs -> ForkRecs]
    BY <1>5, <1>7
  <2>3. OtherTypes'
    BY <1>1, <2>2 DEF IInv, OtherTypes, ForkRecs
  <2>4. r.pc # "idle" /\ r.pc # "status"
    BY <1>7
  <2> QED
    BY <1>1, <1>7, <2>1, <2>3, <2>4, ForkMove
<1>8. CASE Page(e, va) = 0
  <2>0. PICK r \in ForkRecs : r = Advance(fk[e])
    BY <1>3, <1>5, AdvanceFacts
  <2>1. /\ r.child = fk[e].child /\ r.n = 0 /\ r.pc \in {"scan", "entry"}
        /\ r.pc = "scan" => r.i = i + 1 /\ i < Len(AddrSeq)
    BY <1>3, <1>5, <2>0, AdvanceFacts
  <2>2. fk' = [fk EXCEPT ![e] = r]
    BY <1>6, <1>8, <2>0
  <2>3. fk'[e] = r
    BY <1>5, <2>2
  <2>4. r.pc = "scan" => InScan(e)'
    <3> SUFFICES ASSUME r.pc = "scan" PROVE InScan(e)'
      OBVIOUS
    <3>1. Len(AddrSeq) \in Nat
      BY AddrFacts
    <3>2. /\ i + 1 \in 1..Len(AddrSeq) /\ \A j \in (i + 1)..Len(AddrSeq) : j \in i..Len(AddrSeq)
      BY <2>1, <3>1
    <3> QED
      BY <1>1, <1>2, <1>3, <2>1, <2>3, <3>2 DEF InScan, Unmapped
  <2>5. /\ r.n # 2 /\ r.pc \in {"scan", "dup", "entry"}
        /\ r.pc = "scan" => InScan(e)'
        /\ r.pc = "dup" => InDup(e)'
    BY <2>1, <2>4
  <2> QED
    BY <1>7, <2>1, <2>2, <2>5
<1>9. CASE Page(e, va) # 0
  <2>1. PICK perm \in Perms : perm = Perm(e, va)
    BY StateFacts DEF Perm, Ptes
  <2>7. [fk[e] EXCEPT !.pc = "dup", !.n = 1, !.perm = perm] \in ForkRecs
    <3> DEFINE P == {"idle", "scan", "dup", "entry", "status"}
               C == 0..NENV
               I == 0..Len(AddrSeq)
               N == 0..2
    <3>1. ForkRecs = [pc : P, child : C, i : I, perm : Perms, n : N]
      BY DEF ForkRecs
    <3>2. fk[e] \in ForkRecs /\ "dup" \in P /\ 1 \in N
      BY <1>5
    <3> HIDE DEF P, C, I, N
    <3> QED
      BY <3>1, <3>2
  <2>8. PICK r \in ForkRecs : r = [fk[e] EXCEPT !.pc = "dup", !.n = 1, !.perm = perm]
    BY <2>7
  <2>2. /\ r.child = fk[e].child /\ r.n = 1 /\ r.pc = "dup" /\ r.i = i
        /\ r.perm = Perm(e, va)
    BY <1>3, <1>5, <2>1, <2>8 DEF ForkRecs
  <2>3. fk' = [fk EXCEPT ![e] = r]
    BY <1>6, <1>9, <2>1, <2>8
  <2>4. fk'[e] = r
    BY <1>5, <2>3
  <2>5. InDup(e)'
    <3>1. Len(AddrSeq) \in Nat /\ AddrSeq[1] = "UCOW"
      BY AddrFacts
    <3>2. i # 1
      <4>1. Page(e, "UCOW") = 0
        BY <1>1 DEF IInv, Cows, CowOf, Unmapped, NoPte, Page
      <4> QED
        BY <1>4, <1>9, <3>1, <4>1
    <3>3. /\ i \in 2..Len(AddrSeq) /\ i \in i..Len(AddrSeq)
          /\ \A j \in (i + 1)..Len(AddrSeq) : j \in i..Len(AddrSeq)
      BY <3>1, <3>2
    <3>4. \A j \in i..Len(AddrSeq) : Unmapped(m, fk[e].child, AddrSeq[j])
      BY <1>2, <1>3 DEF InScan
    <3> QED
      BY <1>1, <1>4, <1>9, <2>2, <2>4, <3>3, <3>4 DEF InDup, Page, Perm, Unmapped
  <2>12. /\ r.n # 2 /\ r.pc \in {"scan", "dup", "entry"}
         /\ r.pc = "scan" => InScan(e)'
         /\ r.pc = "dup" => InDup(e)'
    BY <2>2, <2>5
  <2> QED
    BY <1>7, <2>2, <2>3, <2>12
<1> QED
  BY <1>8, <1>9

LEMMA ForkEntryStep ==
  ASSUME IInv, NEW e \in Envs, ForkEntry(e)
  PROVE  IInv'
<1>1. /\ fk[e].pc = "entry" /\ UNCHANGED <<m, status, parent, cow, want, left>>
      /\ entry' = [entry EXCEPT ![fk[e].child] = TRUE] /\ fk' = [fk EXCEPT ![e].pc = "status"]
  BY DEF ForkEntry, Forking
<1>2. fk[e].child \in Envs
  BY <1>1 DEF IInv, Forks, InFork, Forker
<1>3. entry \in [Envs -> BOOLEAN] /\ fk \in [Envs -> ForkRecs]
  BY DEF IInv, OtherTypes, ForkRecs
<1>4. entry' \in [Envs -> BOOLEAN] /\ entry'[fk[e].child] /\ \A f \in Envs : entry[f] => entry'[f]
  BY <1>1, <1>2, <1>3
<1>5. /\ fk' \in [Envs -> ForkRecs] /\ \A f \in Envs : f # e => fk'[f] = fk[f]
      /\ fk'[e].pc = "status" /\ fk'[e].child = fk[e].child /\ fk'[e].n = fk[e].n
  BY <1>1, <1>3 DEF ForkRecs
<1>6. OtherTypes'
  BY <1>1, <1>4, <1>5 DEF IInv, OtherTypes, ForkRecs
<1> QED
  BY <1>1, <1>4, <1>5, <1>6, ForkMove

LEMMA ForkStatusStep ==
  ASSUME IInv, NEW e \in Envs, ForkStatus(e)
  PROVE  IInv'
<1>0. /\ fk[e].pc = "status" /\ UNCHANGED <<m, parent, entry, cow, want, left>>
      /\ status' = [status EXCEPT ![fk[e].child] = "RUNNABLE"] /\ fk' = [fk EXCEPT ![e] = NotForking]
  BY DEF ForkStatus, Forking
<1>1. Forker(e) /\ entry[fk[e].child]
  BY <1>0 DEF IInv, Forks, InFork
<1>2. PICK c \in Envs : c = fk[e].child
  BY <1>1 DEF Forker
<1>3. /\ status[c] = "NOT_RUNNABLE" /\ entry[c] /\ Child(c)
      /\ \A f \in Envs : fk[f].pc # "idle" /\ fk[f].child = c => f = e
  BY <1>0, <1>1, <1>2 DEF Forker, Child
<1>4. /\ status \in [Envs -> {"FREE", "NOT_RUNNABLE", "RUNNABLE"}] /\ fk \in [Envs -> ForkRecs]
  BY DEF IInv, OtherTypes, ForkRecs
<1>5. NotForking \in ForkRecs /\ NotForking.pc = "idle"
  <2>1. Len(AddrSeq) \in Nat /\ NENV \in Nat
    BY AddrFacts, SizeFacts
  <2> QED
    BY <2>1 DEF NotForking, ForkRecs, Perms
<1>6. /\ status' \in [Envs -> {"FREE", "NOT_RUNNABLE", "RUNNABLE"}] /\ status'[c] = "RUNNABLE"
      /\ \A f \in Envs : f # c => status'[f] = status[f]
  BY <1>0, <1>2, <1>4
<1>7. /\ fk' \in [Envs -> ForkRecs] /\ fk'[e].pc = "idle" /\ \A f \in Envs : f # e => fk'[f] = fk[f]
  BY <1>0, <1>4, <1>5
<1>8. OtherTypes'
  BY <1>0, <1>6, <1>7 DEF IInv, OtherTypes, ForkRecs
<1>9. Sound(m, {})' /\ Dirs' /\ Kinds'
  BY <1>0, <1>3, <1>6 DEF IInv, Dirs, Kinds, Page, Perm
<1>10. Handled'
  BY <1>0, <1>3, <1>6 DEF IInv, Handled, Perm
<1>11. Forks'
  <2> SUFFICES ASSUME NEW f \in Envs PROVE InFork(f)'
    BY DEF Forks
  <2>1. CASE f = e
    BY <1>7, <2>1 DEF InFork
  <2>2. CASE f # e
    <3>1. fk[f].pc # "idle" => Forker(f)'
      <4> SUFFICES ASSUME fk[f].pc # "idle" PROVE Forker(f)'
        OBVIOUS
      <4>1. Forker(f)
        BY DEF IInv, Forks, InFork
      <4>2. fk[f].child # c /\ f # c
        BY <1>3, <2>2, <4>1 DEF Forker
      <4> QED
        BY <1>0, <1>6, <1>7, <2>2, <4>1, <4>2 DEF Forker
    <3>2. fk[f].pc = "dup" => (cow[f].pc # "idle" => cow[f].va # AddrSeq[fk[f].i])
      BY DupAddress
    <3>3. fk[f].pc = "status" => entry[fk[f].child]
      BY DEF IInv, Forks, InFork
    <3> QED
      BY <1>0, <1>7, <2>2, <3>1, <3>2, <3>3, ForkStays
  <2> QED
    BY <2>1, <2>2
<1>12. Cows'
  <2> SUFFICES ASSUME NEW f \in Envs PROVE CowOf(f)'
    BY DEF Cows
  <2>1. cow[f].pc # "idle" => status[f] = "RUNNABLE"
    BY DEF IInv, Cows, CowOf, InCow
  <2> QED
    BY <1>0, <1>6, <2>1, CowStays
<1>13. \A g, h, vb : g \in Envs => Window(g, vb, h)' = Window(g, vb, h)
  <2>1. \A h, vb : ~Window(e, vb, h) /\ ~Window(e, vb, h)'
    BY <1>0, <1>7 DEF Window
  <2> QED
    BY <1>7, <2>1 DEF Window
<1>14. Exclusive'
  <2> SUFFICES ASSUME NEW g \in Envs, NEW h \in Envs, NEW a \in Addr, NEW b \in Addr,
                      Page(g, a) # 0, Page(g, a) = Page(h, b), ~(g = h /\ a = b)
               PROVE  MayAlias(g, a, h, b)'
    BY <1>0 DEF Exclusive, Page
  <2>1. MayAlias(g, a, h, b)
    BY DEF IInv, Exclusive
  <2> QED
    BY <1>0, <1>13, <2>1 DEF MayAlias, Perm
<1>15. Private'
  <2> SUFFICES ASSUME NEW f \in Envs, NEW vb \in Range(Data) PROVE PrivateAt(f, vb)'
    BY DEF Private
  <2>1. Child(f)' => Child(f)
    BY <1>7 DEF Child
  <2>2. status'[f] = "RUNNABLE" \/ Child(f)' => status[f] = "RUNNABLE" \/ Child(f)
    BY <1>3, <1>6, <2>1
  <2> QED
    BY <1>0, <1>13, <2>2, PrivateStays
<1> QED
  BY <1>8, <1>9, <1>10, <1>11, <1>12, <1>14, <1>15 DEF IInv

LEMMA ForkBeginStep ==
  ASSUME Enough, IInv, NEW e \in Envs, NEW c \in Envs, ForkBegin(e, c)
  PROVE  IInv'
<1>0. /\ status[e] = "RUNNABLE" /\ cow[e].pc = "idle" /\ fk[e].pc = "idle" /\ status[c] = "FREE"
      /\ Call /\ m' = env_setup_vm(m, c)
      /\ status' = [status EXCEPT ![c] = "NOT_RUNNABLE"] /\ parent' = [parent EXCEPT ![c] = e]
      /\ entry' = [entry EXCEPT ![e] = TRUE, ![c] = FALSE]
      /\ want' = [want EXCEPT ![c] = [va \in Addr |-> Clear]]
      /\ fk' = [fk EXCEPT ![e].pc = "scan", ![e].child = c, ![e].i = 1] /\ cow' = cow
  BY DEF ForkBegin, Calls, User, Runs
<1>1. c # e
  BY <1>0
<1>2. /\ Sound(m, {}) /\ m.pgdir[c] = 0 /\ \A t \in Tables : m.pt[c][t] = 0
  BY <1>0 DEF IInv, Dirs
<1>3. /\ Sound(m', {}) /\ Kept(m, m') /\ m'.pte = m.pte /\ m'.pt = m.pt
      /\ m'.pgdir[c] # 0 /\ \A f \in Envs : f # c => m'.pgdir[f] = m.pgdir[f]
  BY <1>0, <1>2, SetupSound
<1>4. \A va \in Addr : m.pte[c][va] = NoPte
  BY <1>2, AddrFacts DEF Sound, Tabled, Unmapped
<1>5. /\ status \in [Envs -> {"FREE", "NOT_RUNNABLE", "RUNNABLE"}] /\ fk \in [Envs -> ForkRecs]
      /\ parent \in [Envs -> 0..NENV] /\ entry \in [Envs -> BOOLEAN]
      /\ want \in [Envs -> [Addr -> [Halves -> {0} \cup Stores]]]
      /\ left \in [calls : 0..NCALL, evicts : 0..NEVICT]
  BY DEF IInv, OtherTypes, ForkRecs
<1>6. /\ status' \in [Envs -> {"FREE", "NOT_RUNNABLE", "RUNNABLE"}] /\ status'[c] = "NOT_RUNNABLE"
      /\ \A f \in Envs : f # c => status'[f] = status[f]
  BY <1>0, <1>5
<1>7. /\ entry' \in [Envs -> BOOLEAN] /\ entry'[e] /\ \A f \in Envs : f # c /\ entry[f] => entry'[f]
  BY <1>0, <1>1, <1>5
<1>8. /\ want' \in [Envs -> [Addr -> [Halves -> {0} \cup Stores]]]
      /\ \A va \in Addr : want'[c][va] = Clear
      /\ \A f \in Envs : f # c => want'[f] = want[f]
  <2>1. [va \in Addr |-> Clear] \in [Addr -> [Halves -> {0} \cup Stores]]
    BY PteFacts
  <2> QED
    BY <1>0, <1>5, <2>1
<1>9. parent' \in [Envs -> 0..NENV]
  <2>1. e \in 0..NENV
    BY SizeFacts
  <2> QED
    BY <1>0, <1>5, <2>1
<1>10. /\ fk' \in [Envs -> ForkRecs] /\ \A f \in Envs : f # e => fk'[f] = fk[f]
       /\ fk'[e].pc = "scan" /\ fk'[e].child = c /\ fk'[e].i = 1
  <2>1. c \in 0..NENV /\ 1 \in 0..Len(AddrSeq)
    BY SizeFacts, AddrFacts
  <2> DEFINE P == {"idle", "scan", "dup", "entry", "status"}
             C == 0..NENV
             I == 0..Len(AddrSeq)
             N == 0..2
  <2>2. ForkRecs = [pc : P, child : C, i : I, perm : Perms, n : N]
    BY DEF ForkRecs
  <2>3. "scan" \in P /\ c \in C /\ 1 \in I
    BY <2>1
  <2> HIDE DEF P, C, I, N
  <2>4. fk[e] \in ForkRecs
    BY <1>5
  <2>5. PICK r : r = [fk[e] EXCEPT !.pc = "scan", !.child = c, !.i = 1]
    OBVIOUS
  <2>6. r \in ForkRecs /\ r.pc = "scan" /\ r.child = c /\ r.i = 1
    BY <2>2, <2>3, <2>4, <2>5
  <2>7. fk' = [fk EXCEPT ![e] = r]
    BY <1>0, <1>5, <2>5
  <2> QED
    BY <1>5, <2>6, <2>7
<1>11. OtherTypes'
  <2>1. left' \in [calls : 0..NCALL, evicts : 0..NEVICT]
    BY <1>0, <1>5, CallBound
  <2> QED
    BY <1>0, <1>6, <1>7, <1>8, <1>9, <1>10, <2>1 DEF IInv, OtherTypes, ForkRecs
<1>12. Sound(m, {})' /\ Dirs' /\ Kinds'
  BY <1>3, <1>6 DEF IInv, Dirs, Kinds, Page, Perm
<1>13. Handled'
  <2> SUFFICES ASSUME NEW f \in Envs, NEW va \in Addr, status'[f] = "RUNNABLE", Perm(f, va) = {COW}
               PROVE  entry'[f]
    BY <1>3 DEF Handled, Perm
  <2>1. f # c
    BY <1>6
  <2> QED
    BY <1>6, <1>7, <2>1 DEF IInv, Handled
<1>14. \A f \in Envs : fk[f].pc # "idle" =>
         /\ Forker(f) /\ f # e /\ f # c /\ fk[f].child # c /\ fk[f].child \in Envs
  BY <1>0 DEF IInv, Forks, InFork, Forker
<1>15. Forks'
  <2> SUFFICES ASSUME NEW f \in Envs PROVE InFork(f)'
    BY DEF Forks
  <2>1. CASE f = e
    <3>1. Forker(e)'
      BY <1>0, <1>1, <1>6, <1>7, <1>10, <1>14 DEF Forker
    <3>2. InScan(e)'
      <4>1. Len(AddrSeq) \in Nat /\ 1 \in 1..Len(AddrSeq) /\ \A j \in 1..Len(AddrSeq) : AddrSeq[j] \in Addr
        BY AddrFacts
      <4> QED
        BY <1>3, <1>4, <1>10, <4>1 DEF InScan, Unmapped
    <3> QED
      BY <1>10, <2>1, <3>1, <3>2 DEF InFork
  <2>2. CASE f # e
    <3>1. fk[f].pc # "idle" => Forker(f)'
      <4> SUFFICES ASSUME fk[f].pc # "idle" PROVE Forker(f)'
        OBVIOUS
      <4>1. /\ Forker(f) /\ f # c /\ fk[f].child # c
        BY <1>14
      <4> QED
        BY <1>6, <1>7, <1>10, <2>2, <4>1 DEF Forker
    <3>2. fk[f].pc = "dup" => (cow[f].pc # "idle" => cow[f].va # AddrSeq[fk[f].i])
      BY DupAddress
    <3>3. fk[f].pc = "status" => entry'[fk[f].child]
      BY <1>7, <1>14 DEF IInv, Forks, InFork
    <3> QED
      BY <1>0, <1>3, <1>10, <2>2, <3>1, <3>2, <3>3, ForkStays
  <2> QED
    BY <2>1, <2>2
<1>16. \A f \in Envs, vb \in Addr : Page(f, vb) # 0 => m'.mem[Page(f, vb)] = m.mem[Page(f, vb)]
  BY <1>3, StateFacts DEF Kept
<1>17. Cows'
  <2> SUFFICES ASSUME NEW f \in Envs PROVE CowOf(f)'
    BY DEF Cows
  <2>1. cow[f].pc # "idle" => status'[f] = "RUNNABLE"
    BY <1>0, <1>6 DEF IInv, Cows, CowOf, InCow
  <2> QED
    BY <1>0, <1>3, <1>16, <2>1, CowStays
<1>18. \A g, h, vb : g \in Envs => Window(g, vb, h)' = Window(g, vb, h)
  <2>1. \A h, vb : ~Window(e, vb, h) /\ ~Window(e, vb, h)'
    BY <1>0, <1>10 DEF Window
  <2> QED
    BY <1>10, <2>1 DEF Window
<1>19. Exclusive'
  <2> SUFFICES ASSUME NEW g \in Envs, NEW h \in Envs, NEW a \in Addr, NEW b \in Addr,
                      Page(g, a) # 0, Page(g, a) = Page(h, b), ~(g = h /\ a = b)
               PROVE  MayAlias(g, a, h, b)'
    BY <1>3 DEF Exclusive, Page
  <2>1. MayAlias(g, a, h, b)
    BY DEF IInv, Exclusive
  <2> QED
    BY <1>0, <1>3, <1>18, <2>1, SMTT(40) DEF MayAlias, Perm
<1>20. Private'
  <2> SUFFICES ASSUME NEW f \in Envs, NEW vb \in Range(Data) PROVE PrivateAt(f, vb)'
    BY DEF Private
  <2>0. vb \in Addr
    BY AddrFacts
  <2>1. View(m', f, vb) = View(m, f, vb) /\ Shared(m', f, vb) = Shared(m, f, vb)
    BY <1>3, <1>16, <2>0 DEF View, Shared, Page
  <2>2. CASE f = c
    <3>1. View(m', c, vb) = Clear
      BY <1>3, <1>4, <2>0 DEF View, NoPte
    <3> QED
      BY <1>8, <2>0, <2>2, <3>1 DEF PrivateAt
  <2>3. CASE f # c
    <3>1. Child(f)' => Child(f)
      BY <1>10, <2>3 DEF Child
    <3>2. want'[f][vb] = want[f][vb] /\ status'[f] = status[f]
      BY <1>6, <1>8, <2>3
    <3> QED
      BY <1>18, <2>1, <3>1, <3>2, PrivateStays
  <2> QED
    BY <2>2, <2>3
<1> QED
  BY <1>11, <1>12, <1>13, <1>15, <1>17, <1>19, <1>20 DEF IInv

----------------------------------------------------------------------------
(* env_free *)

LEMMA DestroyStep ==
  ASSUME IInv, NEW e \in Envs, NEW t \in Envs, sys_env_destroy(e, t)
  PROVE  IInv'
<1>0. /\ status[t] = "RUNNABLE" /\ Call /\ m' = env_free(m, t)
      /\ status' = [status EXCEPT ![t] = "FREE"]
      /\ parent' = [f \in Envs |-> IF f = t \/ parent[f] = t THEN 0 ELSE parent[f]]
      /\ entry' = [entry EXCEPT ![t] = FALSE]
      /\ fk' = [fk EXCEPT ![t] = NotForking] /\ cow' = [cow EXCEPT ![t] = NotCopying]
      /\ want' = [want EXCEPT ![t] = [va \in Addr |-> Clear]]
  BY DEF sys_env_destroy
<1>1. Sound(m, {}) /\ m.pgdir[t] # 0
  BY <1>0 DEF IInv, Dirs
<1>2. /\ Sound(m', {}) /\ m'.mem = m.mem
      /\ \A f \in Envs, va \in Addr : m'.pte[f][va] = IF f = t THEN NoPte ELSE m.pte[f][va]
      /\ \A f \in Envs, u \in Tables : m'.pt[f][u] = IF f = t THEN 0 ELSE m.pt[f][u]
      /\ \A f \in Envs : m'.pgdir[f] = IF f = t THEN 0 ELSE m.pgdir[f]
  BY <1>0, <1>1, FreeSound
<1>3. NoPte.page = 0 /\ NoPte.perm = {}
  BY DEF NoPte
<1>4. /\ status \in [Envs -> {"FREE", "NOT_RUNNABLE", "RUNNABLE"}] /\ fk \in [Envs -> ForkRecs]
      /\ parent \in [Envs -> 0..NENV] /\ entry \in [Envs -> BOOLEAN]
      /\ cow \in [Envs -> [pc : {"idle", "alloc", "copy1", "copy2", "map", "unmap"},
                           va : Addr, perm : Perms]]
      /\ want \in [Envs -> [Addr -> [Halves -> {0} \cup Stores]]]
      /\ left \in [calls : 0..NCALL, evicts : 0..NEVICT]
  BY DEF IInv, OtherTypes, ForkRecs
<1>5. /\ status' \in [Envs -> {"FREE", "NOT_RUNNABLE", "RUNNABLE"}] /\ status'[t] = "FREE"
      /\ \A f \in Envs : f # t => status'[f] = status[f]
  BY <1>0, <1>4
<1>6. /\ entry' \in [Envs -> BOOLEAN] /\ \A f \in Envs : f # t => entry'[f] = entry[f]
  BY <1>0, <1>4
<1>7. /\ want' \in [Envs -> [Addr -> [Halves -> {0} \cup Stores]]]
      /\ \A f \in Envs : f # t => want'[f] = want[f]
  <2>1. [va \in Addr |-> Clear] \in [Addr -> [Halves -> {0} \cup Stores]]
    BY PteFacts
  <2> QED
    BY <1>0, <1>4, <2>1
<1>8. parent' \in [Envs -> 0..NENV]
  <2>1. 0 \in 0..NENV
    BY SizeFacts
  <2> QED
    BY <1>0, <1>4, <2>1
<1>9. /\ fk' \in [Envs -> ForkRecs] /\ fk'[t].pc = "idle" /\ \A f \in Envs : f # t => fk'[f] = fk[f]
  <2>1. Len(AddrSeq) \in Nat /\ NENV \in Nat
    BY AddrFacts, SizeFacts
  <2>2. NotForking \in ForkRecs /\ NotForking.pc = "idle"
    BY <2>1 DEF NotForking, ForkRecs, Perms
  <2> QED
    BY <1>0, <1>4, <2>2
<1>10. /\ cow' \in [Envs -> [pc : {"idle", "alloc", "copy1", "copy2", "map", "unmap"},
                             va : Addr, perm : Perms]]
       /\ cow'[t].pc = "idle" /\ \A f \in Envs : f # t => cow'[f] = cow[f]
  <2>1. "UCOW" \in Addr
    BY AddrFacts
  <2>2. NotCopying \in [pc : {"idle", "alloc", "copy1", "copy2", "map", "unmap"},
                        va : Addr, perm : Perms] /\ NotCopying.pc = "idle"
    BY <2>1 DEF NotCopying, Perms
  <2> QED
    BY <1>0, <1>4, <2>2
<1>11. OtherTypes'
  <2>1. left' \in [calls : 0..NCALL, evicts : 0..NEVICT]
    BY <1>0, <1>4, CallBound
  <2> QED
    BY <1>5, <1>6, <1>7, <1>8, <1>9, <1>10, <2>1 DEF OtherTypes, ForkRecs
<1>12. Dirs' /\ Sound(m, {})'
  BY <1>2, <1>5 DEF IInv, Dirs
<1>13. Kinds' /\ Handled'
  <2>1. Kinds'
    BY <1>2, <1>3 DEF IInv, Kinds, Page, Perm
  <2>2. Handled'
    BY <1>2, <1>3, <1>5, <1>6 DEF IInv, Handled, Perm
  <2> QED
    BY <2>1, <2>2
<1>14. \A f \in Envs : fk[f].pc # "idle" => Forker(f) /\ fk[f].child # t /\ fk[f].child \in Envs
  BY <1>0, Children DEF IInv, Forks, InFork, Forker
<1>15. Forks'
  <2> SUFFICES ASSUME NEW f \in Envs PROVE InFork(f)'
    BY DEF Forks
  <2>1. CASE f = t
    BY <1>9, <2>1 DEF InFork
  <2>2. CASE f # t
    <3>1. fk[f].pc # "idle" => Forker(f)'
      <4> SUFFICES ASSUME fk[f].pc # "idle" PROVE Forker(f)'
        OBVIOUS
      <4>1. Forker(f) /\ fk[f].child # t
        BY <1>14
      <4> QED
        BY <1>5, <1>6, <1>9, <2>2, <4>1 DEF Forker
    <3>2. fk[f].pc = "dup" => /\ AddrSeq[fk[f].i] \in Addr
                              /\ cow[f].pc # "idle" => cow[f].va # AddrSeq[fk[f].i]
      BY DupAddress
    <3>3. fk[f].pc = "dup" => m'.pte[f][AddrSeq[fk[f].i]] = m.pte[f][AddrSeq[fk[f].i]]
      BY <1>2, <2>2, <3>2
    <3>4. fk[f].pc # "idle" => \A vb \in Addr : m'.pte[fk[f].child][vb] = m.pte[fk[f].child][vb]
      BY <1>2, <1>14
    <3>5. fk[f].pc = "status" => entry'[fk[f].child]
      BY <1>6, <1>14 DEF IInv, Forks, InFork
    <3> QED
      BY <1>9, <1>10, <2>2, <3>1, <3>2, <3>3, <3>4, <3>5, ForkStays
  <2> QED
    BY <2>1, <2>2
<1>16. Cows'
  <2> SUFFICES ASSUME NEW f \in Envs PROVE CowOf(f)'
    BY DEF Cows
  <2>1. CASE f = t
    <3>1. "UCOW" \in Addr
      BY AddrFacts
    <3> QED
      BY <1>2, <1>10, <2>1, <3>1 DEF CowOf, Unmapped
  <2>2. CASE f # t
    <3>1. cow[f].pc # "idle" => status'[f] = "RUNNABLE"
      BY <1>5, <2>2 DEF IInv, Cows, CowOf, InCow
    <3> QED
      BY <1>2, <1>10, <2>2, <3>1, CowStays
  <2> QED
    BY <2>1, <2>2
<1>17. \A g, h, vb : g \in Envs /\ g # t => Window(g, vb, h)' = Window(g, vb, h)
  BY <1>9 DEF Window
<1>18. Exclusive'
  <2> SUFFICES ASSUME NEW g \in Envs, NEW h \in Envs, NEW a \in Addr, NEW b \in Addr,
                      m'.pte[g][a].page # 0, m'.pte[g][a].page = m'.pte[h][b].page,
                      ~(g = h /\ a = b)
               PROVE  MayAlias(g, a, h, b)'
    BY DEF Exclusive, Page
  <2>1. g # t /\ h # t
    BY <1>2, <1>3
  <2>2. m'.pte[g][a] = m.pte[g][a] /\ m'.pte[h][b] = m.pte[h][b]
    BY <1>2, <2>1
  <2>3. MayAlias(g, a, h, b)
    BY <2>2 DEF IInv, Exclusive, Page
  <2> QED
    BY <1>10, <1>17, <2>1, <2>2, <2>3 DEF MayAlias, Perm
<1>19. Private'
  <2> SUFFICES ASSUME NEW f \in Envs, NEW vb \in Range(Data), status'[f] = "RUNNABLE" \/ Child(f)'
               PROVE  PrivateAt(f, vb)'
    BY DEF Private, PrivateAt
  <2>0. vb \in Addr
    BY AddrFacts
  <2>1. f # t
    <3>1. ~Child(t)'
      BY <1>9, <1>14 DEF Child
    <3> QED
      BY <1>5, <3>1
  <2>2. Child(f)' => Child(f)
    BY <1>9 DEF Child
  <2>3. \A h : ~Window(t, h, f)
    <3> SUFFICES ASSUME fk[t].pc # "idle", fk[t].child = f PROVE FALSE
      BY DEF Window
    <3>1. Forker(t)
      BY <1>14
    <3>2. status[f] = "NOT_RUNNABLE" /\ \A g \in Envs : fk[g].pc # "idle" /\ fk[g].child = f => g = t
      BY <3>1 DEF Forker
    <3>3. ~Child(f)'
      BY <1>9, <3>2 DEF Child
    <3> QED
      BY <1>5, <2>1, <3>2, <3>3
  <2>4. \A g \in Envs : Window(g, vb, f) => Window(g, vb, f)'
    BY <1>17, <2>3
  <2>5. m'.pte[f][vb] = m.pte[f][vb]
    BY <1>2, <2>0, <2>1
  <2>6. View(m', f, vb) = View(m, f, vb) /\ Shared(m', f, vb) = Shared(m, f, vb)
    BY <1>2, <2>5 DEF View, Shared
  <2>7. want'[f][vb] = want[f][vb] /\ status'[f] = status[f]
    BY <1>5, <1>7, <2>1
  <2> QED
    BY <2>2, <2>4, <2>6, <2>7, PrivateStays
<1> QED
  BY <1>11, <1>12, <1>13, <1>15, <1>16, <1>18, <1>19 DEF IInv

----------------------------------------------------------------------------
(* duppage *)

LEMMA DupExclusive ==
  ASSUME IInv, NEW t \in Envs, NEW va \in Addr, NEW x, PteSet(m, m', t, va, x), UNCHANGED cow,
         \A g, h \in Envs, vb \in Addr :
           Window(g, vb, h) => Window(g, vb, h)' \/ (vb = va /\ t \in {g, h}),
         \A f \in Envs, vb \in Addr :
           (f # t \/ vb # va) /\ Page(f, vb) = x.page => MayAlias(t, va, f, vb)'
  PROVE  Exclusive'
<1> SUFFICES ASSUME NEW e \in Envs, NEW f \in Envs, NEW a \in Addr, NEW b \in Addr,
                    m'.pte[e][a].page # 0, m'.pte[e][a].page = m'.pte[f][b].page,
                    ~(e = f /\ a = b)
             PROVE  MayAlias(e, a, f, b)'
  BY DEF Exclusive, Page
<1>1. /\ m'.pte[t][va] = x
      /\ \A g \in Envs, vb \in Addr : g # t \/ vb # va => m'.pte[g][vb] = m.pte[g][vb]
  BY DEF PteSet
<1>2. CASE e = t /\ a = va
  BY <1>1, <1>2 DEF Page
<1>3. CASE f = t /\ b = va
  <2>1. MayAlias(f, b, e, a)'
    BY <1>1, <1>3 DEF Page
  <2> QED
    BY <2>1, AliasSym
<1>4. CASE ~(e = t /\ a = va) /\ ~(f = t /\ b = va)
  <2>1. m'.pte[e][a] = m.pte[e][a] /\ m'.pte[f][b] = m.pte[f][b]
    BY <1>1, <1>4
  <2>2. MayAlias(e, a, f, b)
    BY <2>1 DEF IInv, Exclusive, Page
  <2>3. a = b => (Window(e, a, f) => Window(e, a, f)') /\ (Window(f, b, e) => Window(f, b, e)')
    BY <1>4
  <2> QED
    BY <2>1, <2>2, <2>3 DEF MayAlias, Perm
<1> QED
  BY <1>2, <1>3, <1>4

(* One sys_mem_map of duppage, in the child or in the parent. *)
LEMMA DupStep ==
  ASSUME IInv, NEW e \in Envs, NEW c \in Envs, NEW va \in Range(Data), NEW t \in Envs, NEW x,
         t = c \/ t = e, fk[e].pc = "dup", c = fk[e].child, va = AddrSeq[fk[e].i], cow[e].pc = "idle",
         PteSet(m, m', t, va, x), Kept(m, m'), Sound(m, {})', Dirs', OtherTypes',
         x.perm \in {{D}, {COW}, {D, LIB}}, UNCHANGED <<status, entry, cow>>,
         \A f \in Envs : f # e => fk'[f] = fk[f],
         fk'[e].pc \notin {"idle", "status"}, fk'[e].child = c,
         fk'[e].pc = "dup" => AddrSeq[fk'[e].i] = va,
         fk'[e].pc = "scan" => InScan(e)', fk'[e].pc = "dup" => InDup(e)',
         \A f \in Envs, vb \in Range(Data) : f # c \/ vb # va => want'[f][vb] = want[f][vb],
         PrivateAt(e, va)', PrivateAt(c, va)',
         \A f \in Envs, vb \in Addr :
           (f # t \/ vb # va) /\ Page(f, vb) = x.page => MayAlias(t, va, f, vb)'
  PROVE  IInv'
<1>1. t \in Envs /\ va \in Addr /\ va # "UCOW" /\ "UCOW" \in Addr
  BY AddrFacts
<1>2. /\ Forker(e) /\ status[e] = "RUNNABLE" /\ entry[e] /\ status[c] = "NOT_RUNNABLE" /\ c # e
      /\ \A f \in Envs : fk[f].pc # "idle" /\ fk[f].child = c => f = e
  BY DEF IInv, Forks, InFork, Forker
<1>3. /\ m'.pte[t][va] = x
      /\ \A f \in Envs, vb \in Addr : Page(f, vb) # 0 => m'.mem[Page(f, vb)] = m.mem[Page(f, vb)]
      /\ \A f \in Envs, vb \in Addr : f # t \/ vb # va =>
           /\ m'.pte[f][vb] = m.pte[f][vb] /\ View(m', f, vb) = View(m, f, vb)
           /\ Shared(m', f, vb) = Shared(m, f, vb)
  BY <1>1, Elsewhere
<1>4. Kinds'
  <2> SUFFICES ASSUME NEW f \in Envs, NEW vb \in Addr, m'.pte[f][vb].page # 0
               PROVE  /\ m'.pte[f][vb].perm \in {{D}, {COW}, {D, LIB}}
                      /\ vb = "UCOW" => m'.pte[f][vb].perm = {D}
    BY DEF Kinds, Page, Perm
  <2>1. CASE f = t /\ vb = va
    BY <1>1, <1>3, <2>1
  <2>2. CASE f # t \/ vb # va
    BY <1>3, <2>2, SMTT(40) DEF IInv, Kinds, Page, Perm
  <2> QED
    BY <2>1, <2>2
<1>5. Handled'
  <2> SUFFICES ASSUME NEW f \in Envs, NEW vb \in Addr, status[f] = "RUNNABLE",
                      m'.pte[f][vb].perm = {COW}
               PROVE  entry[f]
    BY DEF Handled, Perm
  <2>1. CASE f = e
    BY <1>2, <2>1
  <2>2. CASE f # e
    <3>1. f # t
      BY <1>2, <2>2
    <3>2. m'.pte[f][vb] = m.pte[f][vb]
      BY <1>3, <3>1
    <3> QED
      BY <3>2 DEF IInv, Handled, Perm
  <2> QED
    BY <2>1, <2>2
<1>6. Forks'
  <2> SUFFICES ASSUME NEW f \in Envs PROVE InFork(f)'
    BY DEF Forks
  <2>1. fk[f].pc # "idle" => Forker(f)'
    <3> SUFFICES ASSUME fk[f].pc # "idle" PROVE Forker(f)'
      OBVIOUS
    <3>1. Forker(f)
      BY DEF IInv, Forks, InFork
    <3>2. \A g \in Envs : fk'[g].pc # "idle" => fk[g].pc # "idle" /\ fk'[g].child = fk[g].child
      OBVIOUS
    <3>3. fk'[f].child = fk[f].child
      OBVIOUS
    <3> QED
      BY <3>1, <3>2, <3>3 DEF Forker
  <2>2. CASE f = e
    BY <2>1, <2>2 DEF InFork
  <2>3. CASE f # e
    <3>1. fk[f].pc # "idle" => fk[f].child # t /\ fk[f].child \in Envs /\ f # t
      <4> SUFFICES ASSUME fk[f].pc # "idle" PROVE fk[f].child # t /\ fk[f].child \in Envs /\ f # t
        OBVIOUS
      <4>1. Forker(f)
        BY DEF IInv, Forks, InFork
      <4>2. status[f] = "RUNNABLE" /\ fk[f].child \in Envs /\ status[fk[f].child] = "NOT_RUNNABLE"
        BY <4>1 DEF Forker
      <4>3. fk[f].child # c
        BY <1>2, <2>3
      <4> QED
        BY <1>2, <2>3, <4>2, <4>3
    <3>2. fk[f].pc = "dup" => /\ AddrSeq[fk[f].i] \in Addr
                              /\ cow[f].pc # "idle" => cow[f].va # AddrSeq[fk[f].i]
      BY DupAddress
    <3>3. fk[f].pc = "dup" => m'.pte[f][AddrSeq[fk[f].i]] = m.pte[f][AddrSeq[fk[f].i]]
      BY <1>3, <3>1, <3>2
    <3>4. fk[f].pc # "idle" => \A vb \in Addr : m'.pte[fk[f].child][vb] = m.pte[fk[f].child][vb]
      BY <1>3, <3>1
    <3>5. fk[f].pc = "status" => entry[fk[f].child]
      BY DEF IInv, Forks, InFork
    <3> QED
      BY <2>1, <2>3, <3>2, <3>3, <3>4, <3>5, ForkStays
  <2> QED
    BY <2>2, <2>3
<1>7. Cows'
  <2> SUFFICES ASSUME NEW f \in Envs PROVE CowOf(f)'
    BY DEF Cows
  <2>1. cow[f].pc # "idle" => status[f] = "RUNNABLE"
    BY DEF IInv, Cows, CowOf, InCow
  <2>2. CASE f = t
    <3>1. cow[f].pc = "idle"
      BY <1>2, <2>1, <2>2
    <3>2. Unmapped(m, f, "UCOW")
      BY <3>1 DEF IInv, Cows, CowOf
    <3> QED
      BY <1>1, <1>3, <3>1, <3>2 DEF CowOf, Unmapped
  <2>3. CASE f # t
    BY <1>3, <2>1, <2>3, CowStays
  <2> QED
    BY <2>2, <2>3
<1>8. \A g, h \in Envs, vb \in Addr :
        Window(g, vb, h) => Window(g, vb, h)' \/ (g = e /\ h = c /\ vb = va)
  BY DEF Window
<1>9. Exclusive'
  <2>1. \A g, h \in Envs, vb \in Addr :
          Window(g, vb, h) => Window(g, vb, h)' \/ (vb = va /\ t \in {g, h})
    BY <1>8
  <2> QED
    BY <1>1, <2>1, DupExclusive
<1>10. Private'
  <2> SUFFICES ASSUME NEW f \in Envs, NEW vb \in Range(Data), ~(f = e /\ vb = va), ~(f = c /\ vb = va)
               PROVE  PrivateAt(f, vb)'
    BY DEF Private
  <2>1. vb \in Addr /\ (f # t \/ vb # va)
    BY AddrFacts
  <2>2. /\ View(m', f, vb) = View(m, f, vb) /\ Shared(m', f, vb) = Shared(m, f, vb)
        /\ want'[f][vb] = want[f][vb]
    BY <1>3, <2>1
  <2>3. Child(f)' => Child(f)
    <3>1. \A g \in Envs : fk'[g].pc # "idle" => fk[g].pc # "idle" /\ fk'[g].child = fk[g].child
      OBVIOUS
    <3> QED
      BY <3>1 DEF Child
  <2>4. \A g \in Envs : Window(g, vb, f) => Window(g, vb, f)'
    BY <1>8, <2>1
  <2> QED
    BY <2>2, <2>3, <2>4, PrivateStays
<1> QED
  BY <1>4, <1>5, <1>6, <1>7, <1>9, <1>10 DEF IInv

LEMMA DupMapStep ==
  ASSUME Enough, IInv, NEW e \in Envs, DupMap(e)
  PROVE  IInv'
<1>1. /\ Sound(m, {}) /\ status[e] = "RUNNABLE" /\ cow[e].pc = "idle" /\ fk[e].pc = "dup"
      /\ UNCHANGED <<status, parent, entry, cow, left>>
  BY DEF IInv, DupMap, Forking, User, Runs
<1>2. InDup(e) /\ fk[e].i \in 1..Len(AddrSeq) /\ AddrSeq[fk[e].i] \in Range(Data)
  BY <1>1, DupAddress
<1>3. PICK i \in 1..Len(AddrSeq) : i = fk[e].i
  BY <1>2
<1>4. PICK va \in Range(Data) : va = AddrSeq[i]
  BY <1>2, <1>3
<1>5. PICK c \in Envs : c = fk[e].child
  BY <1>1 DEF IInv, Forks, InFork, Forker
<1>6. va \in Addr /\ va # "UCOW"
  BY AddrFacts
<1>7. PICK p \in Pages : p = Page(e, va) /\ p # 0
  BY <1>2, <1>3, <1>4, <1>6, StateFacts DEF InDup
<1>8. PICK pm \in Perms : pm = fk[e].perm /\ pm = Perm(e, va)
  BY <1>2, <1>3, <1>4, StateFacts DEF InDup
<1>9. /\ pm \in {{D}, {COW}, {D, LIB}} /\ m.pte[e][va] = [page |-> p, perm |-> pm]
      /\ m.pte[e][va].page = p /\ m.pte[e][va].perm = pm /\ View(m, e, va) = m.mem[p]
  <2>1. pm \in {{D}, {COW}, {D, LIB}}
    BY <1>6, <1>7, <1>8 DEF IInv, Kinds
  <2>2. m.pte[e][va] = [page |-> Page(e, va), perm |-> Perm(e, va)]
    BY <1>6, StateFacts
  <2>3. m.pte[e][va].page = p /\ m.pte[e][va].perm = pm
    BY <1>7, <1>8 DEF Page, Perm
  <2> QED
    BY <1>7, <1>8, <2>1, <2>2, <2>3 DEF View
<1>10. /\ fk \in [Envs -> ForkRecs] /\ fk[e] \in ForkRecs
       /\ want \in [Envs -> [Addr -> [Halves -> {0} \cup Stores]]]
  BY DEF IInv, OtherTypes, ForkRecs
<1>11. /\ c # e /\ status[c] = "NOT_RUNNABLE"
  BY <1>1, <1>5 DEF IInv, Forks, InFork, Forker
<1>12. \A f \in Envs, vb \in Addr : ~Window(f, vb, e)
  BY <1>1, Children
<1>13. ASSUME NEW f \in Envs, NEW vb \in Addr, Page(f, vb) = p, ~(f = e /\ vb = va)
       PROVE  \/ pm = {COW} /\ Perm(f, vb) = {COW}
              \/ pm = {D, LIB} /\ Perm(f, vb) = {D, LIB}
              \/ f = c /\ vb = va /\ fk[e].n = 2
  <2>1. MayAlias(e, va, f, vb)
    BY <1>6, <1>7, <1>13 DEF IInv, Exclusive
  <2>2. Window(e, va, f) => f = c /\ fk[e].n = 2
    BY <1>5 DEF Window
  <2> QED
    BY <1>1, <1>6, <1>8, <1>12, <2>1, <2>2 DEF MayAlias
<1>14. /\ {D} # {COW} /\ {D} # {D, LIB} /\ {COW} # {D, LIB} /\ ({D} \ {D}) \cup {COW} = {COW}
       /\ \A q \in {{D}, {COW}, {D, LIB}} : (D \in q /\ LIB \notin q /\ COW \notin q) = (q = {D})
       /\ LIB \notin {D} /\ LIB \notin {COW} /\ LIB \in {D, LIB}
  <2>1. D # COW /\ D # LIB /\ COW # LIB
    BY DEF D, COW, LIB
  <2>2. /\ {D} # {COW} /\ {D} # {D, LIB} /\ {COW} # {D, LIB} /\ ({D} \ {D}) \cup {COW} = {COW}
        /\ LIB \notin {D} /\ LIB \notin {COW} /\ LIB \in {D, LIB}
    BY <2>1
  <2>3. \A q \in {{D}, {COW}, {D, LIB}} : (D \in q /\ LIB \notin q /\ COW \notin q) = (q = {D})
    BY <2>1
  <2> QED
    BY <2>2, <2>3
<1>15. /\ Len(AddrSeq) \in Nat /\ i \in 2..Len(AddrSeq)
       /\ \A j \in (i + 1)..Len(AddrSeq) :
            j \in 1..Len(AddrSeq) /\ AddrSeq[j] \in Addr /\ AddrSeq[j] # va /\ Unmapped(m, c, AddrSeq[j])
  <2>1. Len(AddrSeq) \in Nat
    BY AddrFacts
  <2>2. \A j \in (i + 1)..Len(AddrSeq) : j \in 1..Len(AddrSeq) /\ j # i
    BY <2>1
  <2>3. \A j \in (i + 1)..Len(AddrSeq) : AddrSeq[j] \in Addr /\ AddrSeq[j] # va
    BY <1>4, <2>2, AddrFacts
  <2>4. i \in 2..Len(AddrSeq) /\ \A j \in (i + 1)..Len(AddrSeq) : Unmapped(m, c, AddrSeq[j])
    BY <1>2, <1>3, <1>5 DEF InDup
  <2> QED
    BY <2>1, <2>2, <2>3, <2>4
(* What the call does to t, and what it means for the other mappings. *)
<1>16. ASSUME NEW t \in {c, e}, NEW perm \in Perms, perm \in {{D}, {COW}, {D, LIB}},
              m' = sys_mem_map(m, e, va, t, va, perm)
       PROVE  \E x : /\ x.page = p /\ x.perm = perm /\ x = [page |-> p, perm |-> perm]
                     /\ PteSet(m, m', t, va, x)
                     /\ Kept(m, m') /\ Sound(m, {})' /\ Dirs' /\ m'.mem[p] = m.mem[p]
                     /\ m'.pte[t][va] = x /\ View(m', t, va) = m.mem[p]
                     /\ Shared(m', t, va) = (LIB \in perm)
                     /\ \A f \in Envs, vb \in Addr : f # t \/ vb # va =>
                          /\ m'.pte[f][vb] = m.pte[f][vb] /\ View(m', f, vb) = View(m, f, vb)
                          /\ Shared(m', f, vb) = Shared(m, f, vb)
  <2>1. t \in Envs
    OBVIOUS
  <2>2. Maps(m, m', t, va, p, perm)
    BY <1>1, <1>6, <1>7, <1>9, <1>16, <2>1, MemMapSound
  <2>3. PICK x : x = [page |-> p, perm |-> perm]
    OBVIOUS
  <2>4. x.page = p /\ x.perm = perm
    BY <2>3
  <2>5. PteSet(m, m', t, va, x) /\ Kept(m, m') /\ Sound(m, {})' /\ Alike(m, m', t)
    BY <2>2, <2>3 DEF Maps, Alike
  <2>6. Dirs'
    BY <1>1, <1>11, <2>1, <2>5, DirsStay
  <2>7. /\ m'.pte[t][va] = x
        /\ \A f \in Envs, vb \in Addr : Page(f, vb) # 0 => m'.mem[Page(f, vb)] = m.mem[Page(f, vb)]
        /\ \A f \in Envs, vb \in Addr : f # t \/ vb # va =>
             /\ m'.pte[f][vb] = m.pte[f][vb] /\ View(m', f, vb) = View(m, f, vb)
             /\ Shared(m', f, vb) = Shared(m, f, vb)
    BY <1>6, <2>1, <2>5, Elsewhere
  <2>8. m'.mem[p] = m.mem[p]
    BY <1>6, <1>7, <2>7
  <2>9. View(m', t, va) = m.mem[p] /\ Shared(m', t, va) = (LIB \in perm)
    BY <1>7, <2>4, <2>7, <2>8 DEF View, Shared
  <2> QED
    BY <2>3, <2>4, <2>5, <2>6, <2>7, <2>8, <2>9
(* The end of duppage. *)
<1>17. ASSUME fk' = [fk EXCEPT ![e] = Advance(fk[e])],
              \A vb \in Addr : vb # va => m'.pte[c][vb] = m.pte[c][vb]
       PROVE  /\ fk' \in [Envs -> ForkRecs] /\ \A f \in Envs : f # e => fk'[f] = fk[f]
              /\ fk'[e].pc \in {"scan", "entry"} /\ fk'[e].child = c
              /\ fk'[e].pc = "scan" => InScan(e)'
  <2>1. PICK r \in ForkRecs : r = Advance(fk[e])
    BY <1>3, <1>10, AdvanceFacts
  <2>2. /\ r.child = c /\ r.pc \in {"scan", "entry"}
        /\ r.pc = "scan" => r.i = i + 1 /\ i < Len(AddrSeq)
    BY <1>3, <1>5, <1>10, <2>1, AdvanceFacts
  <2>3. /\ fk' \in [Envs -> ForkRecs] /\ \A f \in Envs : f # e => fk'[f] = fk[f]
        /\ fk'[e] = r
    BY <1>10, <1>17, <2>1
  <2>4. fk'[e].pc = "scan" => InScan(e)'
    <3> SUFFICES ASSUME r.pc = "scan" PROVE InScan(e)'
      BY <2>3
    <3>1. i + 1 \in 1..Len(AddrSeq)
      BY <1>15, <2>2
    <3> QED
      BY <1>15, <1>17, <2>2, <2>3, <3>1 DEF InScan, Unmapped
  <2> QED
    BY <2>2, <2>3, <2>4
(* What the child gets. *)
<1>18. ASSUME want' = [want EXCEPT ![c][va] = m.mem[p]]
       PROVE  /\ want' \in [Envs -> [Addr -> [Halves -> {0} \cup Stores]]]
              /\ want'[c][va] = m.mem[p]
              /\ \A f \in Envs, vb \in Range(Data) : f # c \/ vb # va => want'[f][vb] = want[f][vb]
  <2>1. m.mem[p] \in [Halves -> {0} \cup Stores]
    <3>1. m.mem \in [Pages -> [Halves -> {0} \cup Stores]]
      BY <1>1, Fields DEF Sound
    <3> QED
      BY <3>1
  <2>2. \A vb \in Range(Data) : vb \in Addr
    BY AddrFacts
  <2> QED
    BY <1>6, <1>10, <1>18, <2>1, <2>2
<1>19. /\ m' = sys_mem_map(m, e, va, DupTarget(fk[e], e), va, IF pm = {D} THEN {COW} ELSE pm)
       /\ fk' = [fk EXCEPT ![e] = IF pm # {D} \/ fk[e].n = 2 THEN Advance(fk[e])
                                  ELSE [fk[e] EXCEPT !.n = 2]]
       /\ want' = IF (pm # {D} \/ fk[e].n = 2) /\ LIB \notin pm
                  THEN [want EXCEPT ![c][va] = m.mem[p]] ELSE want
  <2>1. (D \in pm /\ LIB \notin pm /\ COW \notin pm) = (pm = {D})
    BY <1>9, <1>14
  <2>2. (pm = {D}) => (pm \ {D}) \cup {COW} = {COW}
    BY <1>14
  <2>3. Shared(m, e, va) = (LIB \in pm)
    BY <1>9 DEF Shared
  <2> QED
    BY <1>3, <1>4, <1>5, <1>8, <1>9, <2>1, <2>2, <2>3 DEF DupMap
<1>20. fk[e].n \in {1, 2} /\ (fk[e].n = 2 => pm = {D} /\ m.pte[c][va] = [page |-> p, perm |-> {COW}])
  BY <1>2, <1>3, <1>4, <1>5, <1>7, <1>8 DEF InDup
<1>21. PICK cw \in Perms : cw = {COW}
  BY DEF Perms
<1>25. PICK t \in {c, e} : t = IF fk[e].n = 1 THEN c ELSE e
  OBVIOUS
<1>26. PICK perm \in Perms : perm = IF pm = {D} THEN {COW} ELSE pm
  BY <1>21
<1>27. perm \in {{D}, {COW}, {D, LIB}} /\ m' = sys_mem_map(m, e, va, t, va, perm)
  BY <1>5, <1>9, <1>19, <1>25, <1>26 DEF DupTarget
<1>28. PICK x : /\ x.page = p /\ x.perm = perm /\ x = [page |-> p, perm |-> perm]
                /\ PteSet(m, m', t, va, x)
                /\ Kept(m, m') /\ Sound(m, {})' /\ Dirs' /\ m'.mem[p] = m.mem[p]
                /\ m'.pte[t][va] = x /\ View(m', t, va) = m.mem[p]
                /\ Shared(m', t, va) = (LIB \in perm)
                /\ \A f \in Envs, vb \in Addr : f # t \/ vb # va =>
                     /\ m'.pte[f][vb] = m.pte[f][vb] /\ View(m', f, vb) = View(m, f, vb)
                     /\ Shared(m', f, vb) = Shared(m, f, vb)
  BY <1>16, <1>27
<1>31. /\ x.page = p /\ x.perm \in {{D}, {COW}, {D, LIB}} /\ t \in Envs /\ (t = c \/ t = e)
       /\ PteSet(m, m', t, va, x) /\ Kept(m, m') /\ Sound(m, {})' /\ Dirs'
  BY <1>27, <1>28
<1>32. /\ fk[e].pc = "dup" /\ c = fk[e].child /\ va = AddrSeq[fk[e].i] /\ cow[e].pc = "idle"
       /\ UNCHANGED <<status, entry, cow>>
  BY <1>1, <1>3, <1>4, <1>5
<1>29. \A f \in Envs : PrivateAt(e, va)' \/ View(m', e, va) # View(m, e, va)
                         \/ Shared(m', e, va) # Shared(m, e, va) \/ want'[e][va] # want[e][va]
  <2>1. \A f \in Envs : ~Window(f, va, e)
    BY <1>6, <1>12
  <2> QED
    BY <1>1, <2>1, PrivateStays
<1>30. \A vb \in Addr : vb # va => m'.pte[c][vb] = m.pte[c][vb]
  BY <1>28
<1>22. CASE pm = {D} /\ fk[e].n = 1
  <2>1. t = c /\ perm = {COW} /\ want' = want /\ fk' = [fk EXCEPT ![e] = [fk[e] EXCEPT !.n = 2]]
    BY <1>19, <1>22, <1>25, <1>26
  <2>2. /\ fk' \in [Envs -> ForkRecs] /\ \A f \in Envs : f # e => fk'[f] = fk[f]
        /\ fk'[e].pc = "dup" /\ fk'[e].child = c /\ fk'[e].i = i /\ fk'[e].n = 2 /\ fk'[e].perm = pm
    <3>1. PICK r : r = [fk[e] EXCEPT !.n = 2]
      OBVIOUS
    <3>2. /\ r \in ForkRecs /\ r.pc = fk[e].pc /\ r.child = fk[e].child /\ r.i = fk[e].i
          /\ r.n = 2 /\ r.perm = fk[e].perm
      <4> DEFINE P == {"idle", "scan", "dup", "entry", "status"}
                 C == 0..NENV
                 I == 0..Len(AddrSeq)
                 N == 0..2
      <4>1. ForkRecs = [pc : P, child : C, i : I, perm : Perms, n : N] /\ 2 \in N
        BY DEF ForkRecs
      <4> HIDE DEF P, C, I, N
      <4> QED
        BY <1>10, <3>1, <4>1
    <3>3. fk' = [fk EXCEPT ![e] = r]
      BY <2>1, <3>1
    <3> QED
      BY <1>1, <1>3, <1>5, <1>8, <1>10, <3>2, <3>3
  <2>3. OtherTypes'
    BY <1>1, <2>1, <2>2 DEF IInv, OtherTypes, ForkRecs
  <2>4. m'.pte[e][va] = m.pte[e][va] /\ m'.pte[c][va] = [page |-> p, perm |-> {COW}]
    BY <1>6, <1>11, <1>28, <2>1
  <2>5. InDup(e)'
    BY <1>1, <1>4, <1>7, <1>9, <1>15, <1>22, <1>30, <2>2, <2>4 DEF InDup, Unmapped, Page, Perm
  <2>6. Window(e, va, c)'
    BY <1>4, <2>2 DEF Window
  <2>7. PrivateAt(e, va)' /\ PrivateAt(c, va)'
    <3>1. PrivateAt(c, va)'
      BY <2>6 DEF PrivateAt
    <3>2. View(m', e, va) = View(m, e, va) /\ Shared(m', e, va) = Shared(m, e, va)
      BY <1>6, <1>11, <1>28, <2>1
    <3> QED
      BY <1>29, <2>1, <3>1, <3>2
  <2>8. ASSUME NEW f \in Envs, NEW vb \in Addr, f # t \/ vb # va, Page(f, vb) = x.page
        PROVE  MayAlias(t, va, f, vb)'
    <3>1. f = e /\ vb = va
      BY <1>13, <1>14, <1>22, <1>28, <2>8
    <3> QED
      BY <2>1, <2>6, <3>1 DEF MayAlias
  <2>9. /\ fk'[e].pc \notin {"idle", "status"} /\ fk'[e].pc # "scan" /\ AddrSeq[fk'[e].i] = va
        /\ \A f \in Envs, vb \in Range(Data) : want'[f][vb] = want[f][vb]
        /\ va = AddrSeq[fk[e].i]
    BY <1>3, <1>4, <2>1, <2>2
  <2> QED
    BY <1>31, <1>32, <2>2, <2>3, <2>5, <2>7, <2>8, <2>9, DupStep, SMTT(40)
<1>23. CASE pm # {D} /\ fk[e].n = 1
  <2>1. /\ t = c /\ perm = pm /\ fk' = [fk EXCEPT ![e] = Advance(fk[e])]
        /\ want' = IF LIB \notin pm THEN [want EXCEPT ![c][va] = m.mem[p]] ELSE want
    BY <1>19, <1>23, <1>25, <1>26
  <2>2. /\ fk' \in [Envs -> ForkRecs] /\ \A f \in Envs : f # e => fk'[f] = fk[f]
        /\ fk'[e].pc \in {"scan", "entry"} /\ fk'[e].child = c
        /\ fk'[e].pc = "scan" => InScan(e)'
    BY <1>17, <1>30, <2>1
  <2>3. /\ want' \in [Envs -> [Addr -> [Halves -> {0} \cup Stores]]]
        /\ LIB \notin pm => want'[c][va] = m.mem[p]
        /\ \A f \in Envs, vb \in Range(Data) : f # c \/ vb # va => want'[f][vb] = want[f][vb]
    BY <1>10, <1>18, <2>1
  <2>4. OtherTypes'
    BY <1>1, <2>2, <2>3 DEF IInv, OtherTypes, ForkRecs
  <2>5. PrivateAt(e, va)' /\ PrivateAt(c, va)'
    <3>1. PrivateAt(c, va)'
      BY <1>28, <2>1, <2>3 DEF PrivateAt
    <3>2. View(m', e, va) = View(m, e, va) /\ Shared(m', e, va) = Shared(m, e, va)
      BY <1>6, <1>11, <1>28, <2>1
    <3> QED
      BY <1>11, <1>29, <2>3, <3>1, <3>2
  <2>6. ASSUME NEW f \in Envs, NEW vb \in Addr, f # t \/ vb # va, Page(f, vb) = x.page
        PROVE  MayAlias(t, va, f, vb)'
    <3>1. Perm(f, vb) = pm
      <4>1. CASE f = e /\ vb = va
        BY <1>8, <4>1
      <4>2. CASE ~(f = e /\ vb = va)
        <5>1. \/ pm = {COW} /\ Perm(f, vb) = {COW}
              \/ pm = {D, LIB} /\ Perm(f, vb) = {D, LIB}
              \/ f = c /\ vb = va /\ fk[e].n = 2
          BY <1>13, <1>31, <2>6, <4>2
        <5>2. fk[e].n # 2
          BY <1>23
        <5> QED
          BY <5>1, <5>2
      <4> QED
        BY <4>1, <4>2
    <3>2. m'.pte[f][vb] = m.pte[f][vb] /\ m'.pte[t][va].perm = pm
      BY <1>28, <2>1, <2>6
    <3> QED
      BY <1>9, <1>23, <3>1, <3>2 DEF MayAlias, Perm
  <2>7. /\ fk'[e].pc \notin {"idle", "status"} /\ fk'[e].pc # "dup" /\ va = AddrSeq[fk[e].i]
    BY <1>3, <1>4, <2>2
  <2>8. \A f \in Envs, vb \in Range(Data) : f # c \/ vb # va => want'[f][vb] = want[f][vb]
    BY <2>3
  <2> QED
    BY <1>31, <1>32, <2>2, <2>4, <2>5, <2>6, <2>7, <2>8, DupStep
<1>24. CASE pm = {D} /\ fk[e].n = 2
  <2>1. /\ t = e /\ perm = {COW} /\ fk' = [fk EXCEPT ![e] = Advance(fk[e])]
        /\ want' = [want EXCEPT ![c][va] = m.mem[p]]
    BY <1>14, <1>19, <1>24, <1>25, <1>26
  <2>2. /\ fk' \in [Envs -> ForkRecs] /\ \A f \in Envs : f # e => fk'[f] = fk[f]
        /\ fk'[e].pc \in {"scan", "entry"} /\ fk'[e].child = c
        /\ fk'[e].pc = "scan" => InScan(e)'
    BY <1>17, <1>30, <2>1
  <2>3. /\ want' \in [Envs -> [Addr -> [Halves -> {0} \cup Stores]]] /\ want'[c][va] = m.mem[p]
        /\ \A f \in Envs, vb \in Range(Data) : f # c \/ vb # va => want'[f][vb] = want[f][vb]
    BY <1>18, <2>1
  <2>4. OtherTypes'
    BY <1>1, <2>2, <2>3 DEF IInv, OtherTypes, ForkRecs
  <2>5. /\ m.pte[c][va] = [page |-> p, perm |-> {COW}] /\ m'.pte[c][va] = m.pte[c][va]
        /\ m'.pte[c][va].perm = {COW} /\ m'.pte[c][va].page = p
    BY <1>6, <1>11, <1>20, <1>24, <1>28, <2>1
  <2>6. PrivateAt(e, va)' /\ PrivateAt(c, va)'
    <3>1. View(m', c, va) = m.mem[p]
      BY <1>7, <1>28, <2>5 DEF View
    <3>2. PrivateAt(c, va)'
      BY <2>3, <3>1 DEF PrivateAt
    <3>3. View(m', e, va) = View(m, e, va)
      BY <1>9, <1>28, <2>1
    <3>4. Shared(m', e, va) = FALSE /\ Shared(m, e, va) = FALSE
      BY <1>9, <1>14, <1>24, <1>28, <2>1 DEF Shared
    <3> QED
      BY <1>11, <1>29, <2>3, <3>2, <3>3, <3>4
  <2>7. ASSUME NEW f \in Envs, NEW vb \in Addr, f # t \/ vb # va, Page(f, vb) = x.page
        PROVE  MayAlias(t, va, f, vb)'
    <3>1. f = c /\ vb = va
      BY <1>13, <1>14, <1>24, <1>28, <2>1, <2>7
    <3>2. m'.pte[t][va].perm = {COW}
      BY <1>28, <2>1
    <3> QED
      BY <2>5, <3>1, <3>2 DEF MayAlias, Perm
  <2>8. /\ fk'[e].pc \notin {"idle", "status"} /\ fk'[e].pc # "dup" /\ va = AddrSeq[fk[e].i]
    BY <1>3, <1>4, <2>2
  <2> QED
    BY <1>31, <1>32, <2>2, <2>3, <2>4, <2>6, <2>7, <2>8, DupStep
<1> QED
  BY <1>20, <1>22, <1>23, <1>24

----------------------------------------------------------------------------
(* The specification *)

LEMMA InitStep ==
  ASSUME Enough, Init
  PROVE  IInv
<1>0. /\ m = sys_mem_alloc(env_setup_vm(Empty, 1), 1, Data[1], {D})
      /\ status = [e \in Envs |-> IF e = 1 THEN "RUNNABLE" ELSE "FREE"]
      /\ parent = [e \in Envs |-> 0] /\ entry = [e \in Envs |-> FALSE]
      /\ fk = [e \in Envs |-> NotForking] /\ cow = [e \in Envs |-> NotCopying]
      /\ want = [e \in Envs |-> [va \in Addr |-> Clear]]
      /\ left = [calls |-> NCALL, evicts |-> NEVICT]
  BY DEF Init
<1>1. PICK first \in Envs : first = 1
  <2>1. 1 \in 1..NENV
    BY MemoryAssumption
  <2> QED
    BY <2>1, SizeFacts
<1>2. PICK va \in Addr : va = Data[1] /\ va # "UCOW"
  BY AddrFacts
<1>3. PICK perm \in Perms : perm = {D}
  BY DEF Perms
<1>4. PICK n : n = env_setup_vm(Empty, 1)
  OBVIOUS
<1>5. /\ Sound(n, {}) /\ n.pgdir[first] # 0 /\ \A f \in Envs : f # first => n.pgdir[f] = 0
      /\ \A f \in Envs, vb \in Addr : n.pte[f][vb] = NoPte
      /\ \A f \in Envs, t \in Tables : n.pt[f][t] = 0
  <2>1. /\ Sound(Empty, {}) /\ \A e \in Envs : Empty.pgdir[e] = 0
        /\ \A e \in Envs, vb \in Addr : Empty.pte[e][vb] = NoPte
        /\ \A e \in Envs, t \in Tables : Empty.pt[e][t] = 0
    BY EmptySound
  <2>2. PICK mm : mm = Empty
    OBVIOUS
  <2>3. /\ Sound(mm, {}) /\ \A e \in Envs : mm.pgdir[e] = 0
        /\ n = env_setup_vm(mm, first)
    BY <1>1, <1>4, <2>1, <2>2
  <2>4. /\ Sound(n, {}) /\ n.pte = mm.pte /\ n.pt = mm.pt
        /\ n.pgdir[first] # 0 /\ \A f \in Envs : f # first => n.pgdir[f] = mm.pgdir[f]
    BY <2>3, SetupSound
  <2> QED
    BY <2>1, <2>2, <2>3, <2>4
<1>6. PICK p \in Pages : n.pp_ref[p] = 0 /\ Maps(n, m, first, va, p, perm) /\ m.mem[p] = Clear
  <2>1. m = sys_mem_alloc(n, first, va, perm)
    BY <1>0, <1>1, <1>2, <1>3, <1>4
  <2> QED
    BY <1>5, <2>1, MemAllocSound
<1>7. p # 0
  BY SizeFacts
<1>8. Sound(m, {}) /\ PteSet(n, m, first, va, [page |-> p, perm |-> perm]) /\ Alike(n, m, first)
  BY <1>6 DEF Maps
<1>9. /\ m.pte[first][va].page = p /\ m.pte[first][va].perm = {D}
      /\ \A f \in Envs, vb \in Addr : f # first \/ vb # va => m.pte[f][vb] = NoPte
  BY <1>3, <1>5, <1>8 DEF PteSet
<1>10. NoPte.page = 0 /\ NoPte.perm = {}
  BY DEF NoPte
<1>11. \A e \in Envs : status[e] = IF e = first THEN "RUNNABLE" ELSE "FREE"
  BY <1>0, <1>1
<1>12. Dirs
  BY <1>5, <1>8, <1>11 DEF Dirs, Alike, OthersTables
<1>13. /\ fk \in [Envs -> ForkRecs] /\ \A e \in Envs : fk[e].pc = "idle"
  <2>1. Len(AddrSeq) \in Nat /\ NENV \in Nat
    BY AddrFacts, SizeFacts
  <2>2. NotForking \in ForkRecs /\ NotForking.pc = "idle"
    BY <2>1 DEF NotForking, ForkRecs, Perms
  <2> QED
    BY <1>0, <2>2
<1>14. /\ cow \in [Envs -> [pc : {"idle", "alloc", "copy1", "copy2", "map", "unmap"},
                            va : Addr, perm : Perms]]
       /\ \A e \in Envs : cow[e].pc = "idle"
  <2>1. "UCOW" \in Addr
    BY AddrFacts
  <2>2. NotCopying \in [pc : {"idle", "alloc", "copy1", "copy2", "map", "unmap"},
                        va : Addr, perm : Perms] /\ NotCopying.pc = "idle"
    BY <2>1 DEF NotCopying, Perms
  <2> QED
    BY <1>0, <2>2
<1>15. /\ want \in [Envs -> [Addr -> [Halves -> {0} \cup Stores]]]
       /\ \A e \in Envs, vb \in Addr : want[e][vb] = Clear
  <2>1. [vb \in Addr |-> Clear] \in [Addr -> [Halves -> {0} \cup Stores]]
    BY PteFacts
  <2> QED
    BY <1>0, <2>1
<1>16. OtherTypes
  <2>1. left \in [calls : 0..NCALL, evicts : 0..NEVICT]
    BY <1>0, MemoryAssumption
  <2>2. parent \in [Envs -> 0..NENV]
    <3>1. 0 \in 0..NENV
      BY SizeFacts
    <3> QED
      BY <1>0, <3>1
  <2>3. status \in [Envs -> {"FREE", "NOT_RUNNABLE", "RUNNABLE"}] /\ entry \in [Envs -> BOOLEAN]
    BY <1>0
  <2> QED
    BY <1>13, <1>14, <1>15, <2>1, <2>2, <2>3 DEF OtherTypes, ForkRecs
<1>17. Kinds
  BY <1>2, <1>9, <1>10 DEF Kinds, Page, Perm
<1>18. Forks
  BY <1>13 DEF Forks, InFork
<1>19. Cows
  <2>1. "UCOW" \in Addr
    BY AddrFacts
  <2> QED
    BY <1>2, <1>9, <1>14, <2>1 DEF Cows, CowOf, Unmapped
<1>20. Exclusive
  BY <1>9, <1>10 DEF Exclusive, Page
<1>21. Handled
  <2>1. {D} # {COW} /\ {} # {COW}
    BY DEF D, COW
  <2> QED
    BY <1>9, <1>10, <2>1 DEF Handled, Perm
<1>22. Private
  <2>1. ASSUME NEW e \in Envs, NEW vb \in Range(Data) PROVE View(m, e, vb) = want[e][vb]
    <3>1. vb \in Addr
      BY AddrFacts
    <3>2. CASE e = first /\ vb = va
      BY <1>6, <1>7, <1>9, <1>15, <3>1, <3>2 DEF View
    <3>3. CASE e # first \/ vb # va
      BY <1>9, <1>10, <1>15, <3>1, <3>3 DEF View
    <3> QED
      BY <3>2, <3>3
  <2> QED
    BY <2>1 DEF Private, PrivateAt
<1> QED
  BY <1>8, <1>12, <1>16, <1>17, <1>18, <1>19, <1>20, <1>21, <1>22 DEF IInv

LEMMA NextStep ==
  ASSUME Enough, ~Handlers, IInv, [Next]_vars
  PROVE  IInv'
<1>1. ASSUME Next PROVE IInv'
  <2>1. ASSUME NEW e \in Envs, NEW va \in Addr,
               \/ tlb_miss_entry(e, va) \/ handle_tlb(e, va) \/ do_tlb_mod(e, va)
               \/ \E h \in Halves, v \in Stores : Store(e, va, h, v)
               \/ \E perm \in ProgPerms : MemAlloc(e, va, perm)
               \/ MemUnmap(e, va) \/ \E dstva \in Addr : MemShare(e, va, dstva)
        PROVE  IInv'
    BY <2>1, MissStep, RefillStep, ModStep, StoreStep, MemAllocStep, MemUnmapStep, MemShareStep
  <2>2. ASSUME NEW e \in Envs, NEW x \in Addr \cup Tables, Evict(e, x) PROVE IInv'
    BY <2>2, EvictStep
  <2>3. ASSUME NEW e \in Envs, CowAlloc(e) \/ CowCopy(e) \/ CowMap(e) \/ CowUnmap(e) PROVE IInv'
    BY <2>3, CowAllocStep, CowCopyStep, CowMapStep, CowUnmapStep
  <2>4. ASSUME NEW e \in Envs, ForkScan(e) \/ DupMap(e) \/ ForkEntry(e) \/ ForkStatus(e) PROVE IInv'
    BY <2>4, ForkScanStep, DupMapStep, ForkEntryStep, ForkStatusStep
  <2>5. ASSUME NEW e \in Envs, NEW t \in Envs, ForkBegin(e, t) \/ sys_env_destroy(e, t) PROVE IInv'
    BY <2>5, ForkBeginStep, DestroyStep
  <2> QED
    BY <1>1, <2>1, <2>2, <2>3, <2>4, <2>5 DEF Next
<1>2. ASSUME UNCHANGED vars PROVE IInv'
  <2>1. UNCHANGED <<m, status, parent, entry, fk, cow, want, left>>
    BY <1>2 DEF vars
  <2>2. Sound(m, {})' /\ Dirs' /\ OtherTypes' /\ Kept(m, m') /\ m'.pte = m.pte
    BY <2>1 DEF IInv, Dirs, OtherTypes, Kept
  <2> QED
    BY <2>1, <2>2, Quiet
<1> QED
  BY <1>1, <1>2

(* IInv is an invariant of the specification.  A handler that stores in the *)
(* middle of duppage breaks it, and so does a kernel without enough pages.  *)
THEOREM MemoryInvariance ==
  ASSUME Enough, ~Handlers
  PROVE  Spec => []IInv
<1>1. Init => IInv
  BY InitStep
<1>2. IInv /\ [Next]_vars => IInv'
  BY NextStep
<1> QED
  BY <1>1, <1>2, PTL DEF Spec

(* The fields keep their types, and nothing that pmap.c, tlbex.c or         *)
(* cow_entry asserts ever fails.                                            *)
THEOREM MemoryTypes ==
  ASSUME Enough, ~Handlers
  PROVE  Spec => []TypeOK
<1>1. IInv => TypeOK
  BY Fields DEF IInv, Sound, OtherTypes, TypeOK
<1> QED
  BY <1>1, MemoryInvariance, PTL

(* pp_ref is the number of mappings, tables and directories that use the    *)
(* page, and page_free_list holds the unused pages, each once: page_insert, *)
(* page_remove, pgdir_walk, env_setup_vm and env_free neither lose a page   *)
(* nor free one in use.                                                     *)
THEOREM RefsCorrect ==
  ASSUME Enough, ~Handlers
  PROVE  Spec => []RefsExact
<1>1. IInv => RefsExact
  <2> SUFFICES ASSUME IInv PROVE RefsExact
    OBVIOUS
  <2>1. Counts(m) /\ FreeList(m, {})
    BY DEF IInv, Sound
  <2> QED
    BY <2>1 DEF Counts, FreeList, RefsExact
<1> QED
  BY <1>1, MemoryInvariance, PTL

(* The TLB agrees with the page tables: every change of an entry that may   *)
(* be loaded is followed by tlb_invalidate in the same call.                *)
THEOREM TlbCorrect ==
  ASSUME Enough, ~Handlers
  PROVE  Spec => []TlbCoherent
<1>1. IInv => TlbCoherent
  <2> SUFFICES ASSUME IInv PROVE TlbCoherent
    OBVIOUS
  <2>1. Coherent(m)
    BY DEF IInv, Sound
  <2> QED
    BY <2>1 DEF Coherent, TlbCoherent
<1> QED
  BY <1>1, MemoryInvariance, PTL

(* Every program sees what it has stored and what its parent had at its     *)
(* fork, whatever the others store, and wherever duppage and cow_entry are  *)
(* interrupted.                                                             *)
THEOREM MemoryCorrect ==
  ASSUME Enough, ~Handlers
  PROVE  Spec => []MemoryIsPrivate
<1>1. IInv => MemoryIsPrivate
  <2> SUFFICES ASSUME IInv, NEW e \in Envs, NEW va \in Range(Data), status[e] = "RUNNABLE",
                      ~Shared(m, e, va)
               PROVE  View(m, e, va) = want[e][va]
    BY DEF MemoryIsPrivate
  <2>1. va \in Addr
    BY AddrFacts
  <2>2. PrivateAt(e, va) /\ \A f \in Envs : ~Window(f, va, e)
    BY <2>1, Children DEF IInv, Private
  <2> QED
    BY <2>2 DEF PrivateAt
<1> QED
  BY <1>1, MemoryInvariance, PTL
=============================================================================
