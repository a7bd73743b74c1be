------------------------------- MODULE MVMemory -------------------------------
(* The multi-version memory of the parallel executors                        *)
(* (src/qvm/parallel/mvmemory.go).  A memory maps a key to its versions, and *)
(* the versions of a key map the index of the writing transaction to what it *)
(* wrote last: the code's sorted slice holds one entry per index.            *)
EXTENDS Integers, FiniteSetsExt, Functions

\* The index of the base state in a version; the code's is -1, its
\* transactions are counted from 0 and ours from 1.
Base == 0

Version(tx, inc, val) == [tx |-> tx, inc |-> inc, val |-> val]

\* The Go map f with v under k; the empty map is <<>>.
put(f, k, v) == [x \in DOMAIN f \cup {k} |-> IF x = k THEN v ELSE f[x]]

Clear(keys) == [k \in keys |-> <<>>]

add(mem, key, tx, inc, val) ==
  [mem EXCEPT ![key] = put(@, tx, Version(tx, inc, val))]

\* A bug: a transaction sees what was written under its own index.
visibleInclusive(mem, key, tx) == {u \in DOMAIN mem[key] : u <= tx}

\* The writers of a key that a transaction may see.
visible(mem, key, tx) == {u \in DOMAIN mem[key] : u < tx}

\* The latest version visible to a transaction, else what the base state has.
find(mem, key, tx, base) ==
  LET writers == visible(mem, key, tx)
  IN  IF writers = {} THEN Version(Base, 0, base[key])
                      ELSE mem[key][Max(writers)]

DeleteVersion(mem, tx, inc) ==
  [k \in DOMAIN mem |->
     Restrict(mem[k], {u \in DOMAIN mem[k] : ~(u = tx /\ mem[k][u].inc = inc)})]
===============================================================================
