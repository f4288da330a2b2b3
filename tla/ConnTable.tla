------------------------------- MODULE ConnTable -------------------------------
(***************************************************************************)
(* The table of connection objects (srv->conns).  The objects in use come  *)
(* first; an object that is given back changes places with the last one in *)
(* use, so the others keep their objects but one changes its index.        *)
(***************************************************************************)
EXTENDS Integers

CONSTANT Size                    \* allocated objects (a multiple of 128)

ASSUME TableAssumption == Size \in Nat \ {0}

VARIABLES
    ptr,                         \* conns->ptr: index -> object
    used,                        \* conns->used
    ndx                          \* con->ndx: object -> index, -1 when not in use

table == <<ptr, used, ndx>>

Places == 0..(Size - 1)
Conns  == 1..Size                \* the objects

TableTypeOK ==
    /\ ptr \in [Places -> Conns]
    /\ used \in 0..Size
    /\ ndx \in [Conns -> Places \cup {-1}]

TableInit ==
    /\ ptr = [i \in Places |-> i + 1]
    /\ used = 0
    /\ ndx = [con \in Conns |-> -1]

\* connections_get_new_connection()
GetNewConnection ==
    /\ used < Size
    /\ ndx' = [ndx EXCEPT ![ptr[used]] = used]
    /\ used' = used + 1
    /\ UNCHANGED ptr

\* mutant: the object that took the place keeps its old index
DelKeepsIndex(con) ==
    /\ ndx[con] # -1
    /\ ptr' = [ptr EXCEPT ![ndx[con]] = ptr[used - 1], ![used - 1] = con]
    /\ ndx' = [ndx EXCEPT ![con] = -1]
    /\ used' = used - 1

\* mutant: the object that is given back keeps the index of its new place
DelIndexesBoth(con) ==
    /\ ndx[con] # -1
    /\ ptr' = [ptr EXCEPT ![ndx[con]] = ptr[used - 1], ![used - 1] = con]
    /\ ndx' = [ndx EXCEPT ![ptr[used - 1]] = ndx[con], ![con] = used - 1]
    /\ used' = used - 1

\* connection_del()
ConnectionDel(con) ==
    /\ ndx[con] # -1
    /\ ptr' = [ptr EXCEPT ![ndx[con]] = ptr[used - 1], ![used - 1] = con]
    /\ ndx' = [ndx EXCEPT ![ptr[used - 1]] = ndx[con], ![con] = -1]
    /\ used' = used - 1

TableNext == GetNewConnection \/ \E con \in Conns : ConnectionDel(con)

TableSpec == TableInit /\ [][TableNext]_table

-----------------------------------------------------------------------------
(***************************************************************************)
(* connection_del() can rely on con->ndx: the table holds every object     *)
(* once, an object in use knows its place, and an object not in use has    *)
(* none (so giving it back twice does nothing).                            *)
(***************************************************************************)
TableOK ==
    /\ \A con \in Conns : \E i \in Places : ptr[i] = con
    /\ \A i, j \in Places : ptr[i] = ptr[j] => i = j
    /\ \A i \in Places : ndx[ptr[i]] = IF i < used THEN i ELSE -1

(***************************************************************************)
(* The index of a connection never grows while it is in use.  So the swap  *)
(* can make the loop over all connections of the trigger miss a connection *)
(* at most as often as there are places below it.                          *)
(***************************************************************************)
IndexNeverGrows ==
    [][\A c \in Conns :
          ndx[c] # -1 /\ ndx'[c] # -1 => ndx'[c] <= ndx[c]]_table
=============================================================================
