------------------------------- MODULE VtTask -------------------------------
(***************************************************************************)
(* The virtual-time bookkeeping of one process: the seven fields that the  *)
(* modified kernel adds to task_struct, and the functions of kernel/time.c,*)
(* kernel/time/timekeeping.c and kernel/fork.c that read and write them.   *)
(* Each operator maps the fields before a call to the fields after it (the *)
(* suffix _nsec of the C names is dropped).  Time is counted in abstract   *)
(* ticks; a dilation factor is stored, as in the code, times One = 1000.   *)
(***************************************************************************)
EXTENDS Integers

One == 1000          \* TDF 1.0
MaxDilation == 100000

TaskFields ==
  [dilation       : Nat,
   virtual_start  : Int, virtual_past  : Int,
   physical_start : Int, physical_past : Int,
   freeze_start   : Int, freeze_past   : Int]

\* INIT_TASK: a process outside virtual time.
NoVirtualTime ==
  [dilation       |-> 0,
   virtual_start  |-> 0, virtual_past  |-> 0,
   physical_start |-> 0, physical_past |-> 0,
   freeze_start   |-> 0, freeze_past   |-> 0]

\* do_virtual_time_keeping treats a process as virtual iff this holds.
InVT(r) == r.virtual_start > 0

-----------------------------------------------------------------------------
(***************************************************************************)
(* Reading the clock.                                                      *)
(***************************************************************************)

\* div_s64_rem: C's signed division, truncating toward zero.
DivS64(a, b) == IF a >= 0 THEN a \div b ELSE -((-a) \div b)

\* delta_ppn: physical time used since the previous reading.
DeltaPhysical(r, now) ==
  now - r.physical_past - r.physical_start - r.freeze_past

\* Faulty variant: multiplies by the factor instead of dividing.
DeltaVirtual_inverse(delta, tdf) ==
  IF tdf > 0 /\ tdf <= MaxDilation THEN DivS64(delta * tdf, One) ELSE 0

\* delta_vpn: the virtual time that a stretch of physical time amounts to.
DeltaVirtual(delta, tdf) ==
  IF tdf = One THEN delta
  ELSE IF tdf > 0 /\ tdf <= MaxDilation THEN DivS64(delta * One, tdf)
  ELSE 0

\* The fields after getnstimeofday() by this process at wall-clock time now.
KeepTime(r, now) ==
  IF InVT(r)
    THEN LET delta == DeltaPhysical(r, now)
         IN  [dilation       |-> r.dilation,
              virtual_start  |-> r.virtual_start,
              virtual_past   |-> r.virtual_past + DeltaVirtual(delta, r.dilation),
              physical_start |-> r.physical_start,
              physical_past  |-> r.physical_past + delta,
              freeze_start   |-> r.freeze_start,
              freeze_past    |-> r.freeze_past]
    ELSE r

\* The value that getnstimeofday() returns to this process.
TimeOfDay(r, now) ==
  IF InVT(r)
    THEN r.virtual_start + KeepTime(r, now).virtual_past
    ELSE now

-----------------------------------------------------------------------------
(***************************************************************************)
(* Entering, leaving and changing dilation.  now is what getnstimeofday()  *)
(* returned to the process that makes the change, not to the target.       *)
(***************************************************************************)

InitVirtualStartTime(r, tdf, now) ==
  IF tdf > 0
    THEN [dilation       |-> tdf,
          virtual_start  |-> now, virtual_past  |-> 0,
          physical_start |-> now, physical_past |-> 0,
          freeze_start   |-> 0,   freeze_past   |-> 0]
    ELSE r

\* "already in virtual time": from one factor to another.
Redilate(r, tdf, now) ==
  [dilation       |-> tdf,
   virtual_start  |-> now,
   virtual_past   |-> r.virtual_past + DivS64(DeltaPhysical(r, now) * One, r.dilation),
   physical_start |-> now,
   physical_past  |-> 0,
   freeze_start   |-> r.freeze_start,
   freeze_past    |-> r.freeze_past]

\* set_dilation() returns -EINVAL before it reaches the children.
RefusesDilation(r, tdf) == r.dilation # 0 /\ r.dilation # tdf /\ tdf < 0

\* Faulty variant: leaving virtual time only clears the factor.
SetDilation_forgetful(r, tdf, now) ==
  IF r.dilation = tdf \/ RefusesDilation(r, tdf) THEN r
  ELSE IF r.dilation = 0 THEN InitVirtualStartTime(r, tdf, now)
  ELSE IF tdf = 0 THEN [r EXCEPT !.dilation = 0]
  ELSE Redilate(r, tdf, now)

\* Faulty variant: a negative factor is not refused.
SetDilation_unrefused(r, tdf, now) ==
  IF r.dilation = tdf THEN r
  ELSE IF r.dilation = 0 THEN InitVirtualStartTime(r, tdf, now)
  ELSE IF tdf = 0 THEN NoVirtualTime
  ELSE Redilate(r, tdf, now)

\* The fields of one process after set_dilation(), its children aside.
SetDilation(r, tdf, now) ==
  IF r.dilation = tdf \/ RefusesDilation(r, tdf) THEN r
  ELSE IF r.dilation = 0 THEN InitVirtualStartTime(r, tdf, now)
  ELSE IF tdf = 0 THEN NoVirtualTime
  ELSE Redilate(r, tdf, now)

\* Whether set_dilation() has to ask for the time.
AsksTime(r, tdf) == r.dilation # tdf /\ tdf > 0

\* Faulty variant: only the last freeze counts.
CreditFreeze_last(r, now) == [r EXCEPT !.freeze_past = now - r.freeze_start]

\* The frozen duration grows by the freeze that ends now, and what unfreeze_time()
\* copies into a descendant.
CreditFreeze(r, now) == [r EXCEPT !.freeze_past = @ + (now - r.freeze_start)]
CopyFreeze(r, from)  == [r EXCEPT !.freeze_past  = from.freeze_past,
                                  !.freeze_start = from.freeze_start]
=============================================================================
