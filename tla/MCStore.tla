------------------------------ MODULE MCStore ------------------------------
EXTENDS Views, TLC

Cal(id, machine, engine, authority, build, at) ==
    [rowid |-> id, machine |-> machine, engine |-> engine, authority |-> authority,
     build |-> build, at |-> at, born |-> Old]
Char(id, machine, engine, artifact, authority, method, build, at) ==
    [rowid |-> id, machine |-> machine, engine |-> engine, artifact |-> artifact,
     config |-> "cfg", authority |-> authority, methodology |-> method, build |-> build,
     evidenceBuild |-> "b1", reusable |-> artifact # Null /\ authority # Null, safe |-> 2,
     direct |-> Null, point |-> 1, at |-> at, born |-> Old]
Bench(id, machine, at) ==
    [rowid |-> id, machine |-> machine, engine |-> "wmx", policy |-> "default",
     cell |-> Null, at |-> at]
Store_(version, cal, char, bench, cals, chars, benches) ==
    [version |-> version, calShape |-> cal, charShape |-> char, benchShape |-> bench,
     cals |-> cals, chars |-> chars, benches |-> benches, backup |-> [n \in 3..8 |-> -1]]

\* A new store, and stores of four earlier releases.
MCOldStores ==
    {Store_(0, 8, 7, 4, {}, {}, {}),
     Store_(0, 0, 0, 0,
            {Cal(1, "legacy1", "wmx", Null, Null, 1), Cal(2, "legacy1", "wcx", Null, Null, 1),
             Cal(3, "legacy2", "wcx", Null, Null, 2)},
            {Char(1, "legacy1", "wmx", Null, Null, Null, Null, 2),
             Char(2, "legacy2", "mlx", "hf", Null, Null, Null, 1)},
            {Bench(1, "legacy1", 1), Bench(2, "legacy2", 2)}),
     Store_(4, 0, 0, 4, {Cal(1, "versioned", "mlx", Null, Null, 1),
                         Cal(2, "versioned", "cuda", Null, Null, 1)}, {}, {}),
     Store_(5, 5, 5, 4, {Cal(1, "versioned", "mlx", Null, Null, 1)},
            {Char(1, "versioned", "mlx", "hf", Null, Null, Null, 1),
             Char(2, "versioned", "cuda", "hf", Null, Null, Null, 1)}, {}),
     Store_(6, 6, 6, 4, {Cal(1, "versioned", "mlx", "a1", Null, 1)},
            {Char(1, "versioned", "mlx", "hf", "a1", Null, Null, 1),
             Char(2, "versioned", "cuda", "hf", "unscoped", Null, Null, 1),
             [Char(3, "versioned", "cuda", "new", "unscoped", Null, Null, 2)
                EXCEPT !.safe = 0, !.point = 0]}, {})}

Symmetry == Permutations(Procs)
=============================================================================
