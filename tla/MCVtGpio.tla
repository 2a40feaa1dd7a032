------------------------------ MODULE MCVtGpio ------------------------------
\* Values for the constants of VtGpio that a configuration cannot spell.
EXTENDS VtGpio, TLC

CONSTANTS b1, b2, t1, t2

OneBoard  == (t1 :> b1) @@ (t2 :> b1)
TwoBoards == (t1 :> b1) @@ (t2 :> b2)

\* Two processes of one board are interchangeable.
Interchangeable == Permutations({t1, t2})

\* pid_IDX is only shown: no guard and no property but the type looks at it.
WithoutShown ==
  <<wall, vt, run, [b \in Board |-> [module[b] EXCEPT !.pid_IDX = NoPids]],
    pin, wire, irq, isr, store, obs>>

NormalSpeed == {1000}
\* Normal speed, out of virtual time, and a value that the kernel refuses.
Factors     == {-1, 0, 1000}

Scripts   == Habits
=============================================================================
