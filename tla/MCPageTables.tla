--------------------------- MODULE MCPageTables ---------------------------
(* The tables of a small machine: eight pages of physical memory, mapped at *)
(* page eight and up; the first four are memory, the others devices.        *)
EXTENDS PageTables

Tab(f) == [kind |-> "table", addr |-> f, nx |-> FALSE, wr |-> TRUE]
Pg(p, nx) == [kind |-> "leaf", addr |-> p, nx |-> nx, wr |-> FALSE]
Pair(a, b) == [k \in 0 .. 1 |-> IF k = 0 THEN a ELSE b]

\* Frames: 0 the PML4; 1 to 3 the kernel image, whose pages need not be at
\* hhdm; 4 the direct map; 5 its device half, when the loader made one; 6 and
\* 7 the allocator's, with whatever was in them before.
Image(devices, half) ==
    [f \in Frames |->
        CASE f = 0 -> Pair(Tab(1), Tab(4))
          [] f = 1 -> Pair(Tab(2), None)
          [] f = 2 -> Pair(Tab(3), Pg(2, TRUE))
          [] f = 3 -> Pair(Pg(3, TRUE), Pg(1, TRUE))
          [] f = 4 -> Pair(Pg(0, TRUE), devices)
          [] f = 5 -> half
          [] OTHER -> Pair(Pg(0, FALSE), Pg(7, FALSE))]

\* The device half is absent, one large page, or a table with or without a
\* large page in it.
Images ==
    {Image(d, Pair(None, None)) : d \in {None, Pg(4, TRUE), Tab(5)}}
        \cup {Image(Tab(5), Pair(Pg(4, TRUE), None))}

Regions == {[base |-> 4, n |-> 2], [base |-> 5, n |-> 3]}

\* A buffer in a large page of the direct map, one that spans a small and a
\* large page, and one that runs off the part of the image that is mapped.
Modules == {[base |-> 9, n |-> 2], [base |-> 1, n |-> 2], [base |-> 3, n |-> 2]}
=============================================================================
