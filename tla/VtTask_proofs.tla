---------------------------- MODULE VtTask_proofs ----------------------------
(***************************************************************************)
(* What the functions on the fields of one process preserve, for any       *)
(* fields and any time.                                                    *)
(***************************************************************************)
EXTENDS VtTask, TLAPS

LEMMA DivS64Type == ASSUME NEW a \in Int, NEW b \in Nat, b # 0
                    PROVE  DivS64(a, b) \in Int
BY DEF DivS64

LEMMA DeltaVirtualType == ASSUME NEW d \in Int, NEW tdf \in Nat
                          PROVE  DeltaVirtual(d, tdf) \in Int
<1>1. CASE tdf = One
  BY <1>1 DEF DeltaVirtual
<1>2. CASE tdf # One /\ tdf > 0
  <2>1. d * One \in Int
    BY DEF One
  <2>2. DivS64(d * One, tdf) \in Int
    BY <1>2, <2>1, DivS64Type
  <2> QED BY <1>2, <2>2 DEF DeltaVirtual
<1>3. CASE tdf # One /\ ~(tdf > 0)
  BY <1>3 DEF DeltaVirtual
<1> QED BY <1>1, <1>2, <1>3

LEMMA KeepTimeType == ASSUME NEW r \in TaskFields, NEW now \in Int
                      PROVE  /\ KeepTime(r, now) \in TaskFields
                             /\ TimeOfDay(r, now) \in Int
<1> DEFINE d == DeltaPhysical(r, now)
           v == DeltaVirtual(d, r.dilation)
<1>1. d \in Int
  BY DEF DeltaPhysical, TaskFields
<1>2. v \in Int
  BY <1>1, DeltaVirtualType DEF TaskFields
<1> HIDE DEF d, v
<1>3. KeepTime(r, now) =
        IF InVT(r)
          THEN [dilation       |-> r.dilation,
                virtual_start  |-> r.virtual_start,
                virtual_past   |-> r.virtual_past + v,
                physical_start |-> r.physical_start,
                physical_past  |-> r.physical_past + d,
                freeze_start   |-> r.freeze_start,
                freeze_past    |-> r.freeze_past]
          ELSE r
  BY DEF KeepTime, d, v
<1>4. KeepTime(r, now) \in TaskFields
  BY <1>1, <1>2, <1>3 DEF TaskFields
<1> QED BY <1>4 DEF TimeOfDay, TaskFields

LEMMA NoVirtualTimeType == NoVirtualTime \in TaskFields
BY DEF NoVirtualTime, TaskFields

LEMMA InitVirtualStartTimeType ==
  ASSUME NEW r \in TaskFields, NEW tdf \in Int, NEW now \in Int
  PROVE  InitVirtualStartTime(r, tdf, now) \in TaskFields
BY DEF InitVirtualStartTime, TaskFields, NoVirtualTime

LEMMA SetDilationType ==
  ASSUME NEW r \in TaskFields, NEW tdf \in Int, NEW now \in Int
  PROVE  SetDilation(r, tdf, now) \in TaskFields
<1>1. CASE r.dilation = tdf \/ RefusesDilation(r, tdf) \/ r.dilation = 0 \/ tdf = 0
  BY <1>1, InitVirtualStartTimeType, NoVirtualTimeType DEF SetDilation
<1>2. CASE ~(r.dilation = tdf \/ RefusesDilation(r, tdf) \/ r.dilation = 0 \/ tdf = 0)
  <2>1. r.dilation \in Nat /\ r.dilation # 0 /\ tdf \in Nat
    BY <1>2 DEF TaskFields, RefusesDilation
  <2>2. DeltaPhysical(r, now) * One \in Int
    BY DEF DeltaPhysical, TaskFields, One
  <2>3. DivS64(DeltaPhysical(r, now) * One, r.dilation) \in Int
    BY <2>1, <2>2, DivS64Type
  <2>4. Redilate(r, tdf, now) \in TaskFields
    BY <2>1, <2>3 DEF Redilate, TaskFields
  <2> QED BY <1>2, <2>4 DEF SetDilation
<1> QED BY <1>1, <1>2

LEMMA CreditFreezeType == ASSUME NEW r \in TaskFields, NEW now \in Int
                          PROVE  CreditFreeze(r, now) \in TaskFields
BY DEF CreditFreeze, TaskFields

LEMMA CopyFreezeType == ASSUME NEW r \in TaskFields, NEW q \in TaskFields
                        PROVE  CopyFreeze(r, q) \in TaskFields
BY DEF CopyFreeze, TaskFields

LEMMA MarkType == ASSUME NEW r \in TaskFields, NEW now \in Int
                  PROVE  [r EXCEPT !.freeze_start = now] \in TaskFields
BY DEF TaskFields

-----------------------------------------------------------------------------
(***************************************************************************)
(* How much virtual time a stretch of physical time amounts to.            *)
(***************************************************************************)

\* A division truncates downward, for a stretch that is not negative.
LEMMA DivS64Bound == ASSUME NEW a \in Nat, NEW b \in Nat, b # 0
                     PROVE  DivS64(a, b) \in Nat /\ DivS64(a, b) * b <= a
<1>1. DivS64(a, b) = a \div b
  BY DEF DivS64
<1>2. a \div b \in Int /\ a % b \in Int /\ 0 <= a % b /\ a = (b * (a \div b)) + (a % b)
  OBVIOUS
<1>3. a \div b >= 0
  OBVIOUS
<1> QED BY <1>1, <1>2, <1>3

\* The remainder is dropped, and a factor of 1.0 or more makes no time.
LEMMA DeltaVirtualBound ==
  ASSUME NEW d \in Nat, NEW tdf \in Nat
  PROVE  /\ DeltaVirtual(d, tdf) \in Nat
         /\ DeltaVirtual(d, tdf) * tdf <= d * One
         /\ tdf >= One => DeltaVirtual(d, tdf) <= d
<1>1. CASE tdf = One
  BY <1>1 DEF DeltaVirtual, One
<1>2. CASE tdf # One /\ tdf > 0 /\ tdf <= MaxDilation
  <2> DEFINE q == DivS64(d * One, tdf)
  <2>1. d * One \in Nat
    BY DEF One
  <2>2. q \in Nat /\ q * tdf <= d * One
    BY <1>2, <2>1, DivS64Bound
  <2>3. DeltaVirtual(d, tdf) = q
    BY <1>2 DEF DeltaVirtual
  <2> HIDE DEF q
  <2>4. tdf >= One => q <= d
    <3> SUFFICES ASSUME tdf >= One PROVE q <= d
      OBVIOUS
    <3>1. q * One <= q * tdf
      BY <2>2 DEF One
    <3> QED BY <2>2, <3>1 DEF One
  <2> QED BY <2>2, <2>3, <2>4
<1>3. CASE tdf # One /\ ~(tdf > 0 /\ tdf <= MaxDilation)
  BY <1>3 DEF DeltaVirtual, One
<1> QED BY <1>1, <1>2, <1>3

-----------------------------------------------------------------------------
(***************************************************************************)
(* A process with dilation 0 is outside virtual time.                      *)
(***************************************************************************)
Dated(r) == InVT(r) => r.dilation # 0

LEMMA DatedKept ==
  ASSUME NEW r \in TaskFields, Dated(r), NEW q \in TaskFields,
         NEW tdf \in Int, NEW now \in Int
  PROVE  /\ Dated(KeepTime(r, now))
         /\ Dated(InitVirtualStartTime(r, tdf, now))
         /\ Dated(SetDilation(r, tdf, now))
         /\ Dated(CreditFreeze(r, now))
         /\ Dated(CopyFreeze(r, q))
         /\ Dated([r EXCEPT !.freeze_start = now])
<1>1. Dated(KeepTime(r, now))
  BY DEF Dated, KeepTime, InVT
<1>2. Dated(InitVirtualStartTime(r, tdf, now))
  BY DEF Dated, InitVirtualStartTime, InVT
<1>3. Dated(SetDilation(r, tdf, now))
  <2>1. Dated(NoVirtualTime)
    BY DEF Dated, NoVirtualTime, InVT
  <2>2. tdf # 0 => Dated(Redilate(r, tdf, now))
    BY DEF Dated, Redilate
  <2> QED BY <1>2, <2>1, <2>2 DEF SetDilation
<1>4. /\ Dated(CreditFreeze(r, now)) /\ Dated(CopyFreeze(r, q))
      /\ Dated([r EXCEPT !.freeze_start = now])
  BY DEF Dated, CreditFreeze, CopyFreeze, InVT, TaskFields
<1> QED BY <1>1, <1>2, <1>3, <1>4
=============================================================================
