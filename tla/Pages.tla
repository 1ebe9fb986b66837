-------------------------------- MODULE Pages --------------------------------
(***************************************************************************)
(* The page allocator (pmm.c): what pmm_init makes of the memory map of    *)
(* the loader, and what pmm_alloc finds. Nobody calls pmm_free.            *)
(*                                                                         *)
(* Addresses are page numbers. An entry of the map has the pages base ..   *)
(* base + length - 1; usable is its type. The bitmap is the set of the     *)
(* free pages.                                                             *)
(***************************************************************************)
EXTENDS Naturals, Sequences, FiniteSetsExt

CONSTANTS
  PageBytes      \* PAGE_SIZE

PagesOf(entry) == entry.base .. entry.base + entry.length - 1

(* Room for one bit per page up to the highest address of the map. *)
TotalPages(map) == Max({map[i].base + map[i].length : i \in DOMAIN map})
BitmapSize(map) == TotalPages(map) \div 8 + 1

(* The bitmap is put at the beginning of the first usable entry in which   *)
(* there is room for it.                                                   *)
BitmapEntry(map) ==
  Min({i \in DOMAIN map : map[i].usable /\ map[i].length * PageBytes >= BitmapSize(map)})
BitmapPages(map) ==
  LET base == map[BitmapEntry(map)].base
  IN base .. base + (BitmapSize(map) + PageBytes - 1) \div PageBytes - 1

(* Mutant: the entry of the bitmap is not shortened. *)
FreeWithBitmap(map) == UNION {PagesOf(map[i]) : i \in {j \in DOMAIN map : map[j].usable}}

(* pmm_init: free is what is usable, without the bitmap. What the frame    *)
(* buffer reserves before is freed again if an entry says it is usable.    *)
FreePages(map) ==
  (UNION {PagesOf(map[i]) : i \in {j \in DOMAIN map : map[j].usable}}) \ BitmapPages(map)

(* pmm_alloc: the first run of free pages, or NULL. *)
Runs(free, count) == {s \in free : s .. s + count - 1 \subseteq free}
PmmAlloc(free, count) == IF Runs(free, count) = {} THEN 0 ELSE Min(Runs(free, count))
=============================================================================
