------------------------------ MODULE MemPool ------------------------------
(***************************************************************************)
(* mm/mempool.h: memory that is handed out from the front of a chunk.  A   *)
(* chunk that is used up is put on exhaustList and stays as it is until    *)
(* the whole pool is reset.  A user either takes n objects at once         *)
(* (allocN) or asks for room for n of them (preallocN), fills some and     *)
(* commits those; without a commit the same room is handed out again.      *)
(* Sizes are in objects of the pool: poolSize is a multiple of the objects *)
(* the program keeps in its pools.  mmap() gives a chunk that is not in    *)
(* use; its failure ends the program.                                      *)
(***************************************************************************)
EXTENDS Integers

CONSTANT PoolSize        (* poolSize, in objects                             *)

ASSUME PoolSizeAssumption == PoolSize \in Nat \ {0}

(* A pointer is an offset into a chunk; chunks are numbered as mmap() makes *)
(* them, from 1.                                                            *)
Pointer(c, n) == [chunk |-> c, at |-> n]
NullPointer   == Pointer(0, 0)
PointerType   == [chunk: Nat, at: Nat]
PoolType      == [memory: Nat, exhaustList: SUBSET Nat, used: Nat, next: PointerType]

NewPool == [memory |-> 1, exhaustList |-> {}, used |-> 0, next |-> Pointer(1, 0)]

AddMemory(p) ==
  [memory |-> p.memory + 1, exhaustList |-> p.exhaustList \cup {p.memory},
   used |-> 0, next |-> Pointer(p.memory + 1, 0)]

(* preallocN(): the pool after the call and the pointer it returns.         *)
PreallocN(p, n) ==
  IF p.used + n < PoolSize THEN [pool |-> p, ptr |-> p.next]
  ELSE IF p.used = 0       THEN [pool |-> p, ptr |-> NullPointer]
  ELSE [pool |-> AddMemory(p), ptr |-> IF n < PoolSize THEN AddMemory(p).next ELSE NullPointer]

(* Mutant: the last object is not counted.                                  *)
CommitAllButLast(p, n) ==
  [p EXCEPT !.used = @ + n - 1, !.next = Pointer(@.chunk, @.at + n - 1)]

(* commitN() of the n objects that were filled.                             *)
CommitN(p, n) ==
  IF p.used + n < PoolSize
  THEN [p EXCEPT !.used = @ + n, !.next = Pointer(@.chunk, @.at + n)]
  ELSE [p EXCEPT !.used = @ + n, !.next = NullPointer]

(* reset(): every chunk but the current one is unmapped.                    *)
Reset(p) == [p EXCEPT !.exhaustList = {}, !.used = 0, !.next = Pointer(p.memory, 0)]
=============================================================================
