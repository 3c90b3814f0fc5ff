----------------------------- MODULE OsadaStore ------------------------------
(***************************************************************************)
(* What the OSADA server promises about the contents of a volume, without  *)
(* bitmap, chains, locks or threads: a set of files with a size each, that *)
(* requests change one at a time, as long as all blocks fit the volume.    *)
(***************************************************************************)
EXTENDS Integers, FiniteSets

CONSTANTS
  Files,      \* the files there can be
  Capacity,   \* number of data blocks of the volume
  BlockSize   \* bytes in a block

VARIABLE store   \* the size of each file, or Absent

Absent == -1

\* The blocks that n bytes fill.
BlocksOf(n) == IF n <= 0 THEN 0 ELSE ((n - 1) \div BlockSize) + 1

\* The blocks of all files together: the first, second, ... of each.
Used(s) == Cardinality(UNION {{f} \X (1 .. BlocksOf(s[f])) : f \in Files})

Init == store = [f \in Files |-> Absent]

\* mknod: a new file is empty.
Create(f) ==
  /\ store[f] = Absent
  /\ store' = [store EXCEPT ![f] = 0]

\* write and truncate: the new size, if the volume has room for it.
Resize(f) ==
  /\ store[f] # Absent
  /\ store'[f] \in Nat
  /\ \A g \in Files \ {f} : store'[g] = store[g]
  /\ Used(store') <= Capacity

\* unlink.
Remove(f) ==
  /\ store[f] # Absent
  /\ store' = [store EXCEPT ![f] = Absent]

Next == \E f \in Files : Create(f) \/ Resize(f) \/ Remove(f)

Spec == Init /\ [][Next]_store
==============================================================================
