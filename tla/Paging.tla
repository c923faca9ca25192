------------------------------- MODULE Paging -------------------------------
(***************************************************************************)
(* The pages of the listings of points and of write logs (api/router.go):  *)
(* the two numbers of a request are put right by pagination, and bounds    *)
(* turns them into the part of the list that is answered.                  *)
(*                                                                         *)
(* Go's int wraps round: half is 2^63 in the program, and a parameter      *)
(* here.                                                                   *)
(***************************************************************************)
EXTENDS Integers, TLAPS

Wrap(half, i) == ((i + half) % (2 * half)) - half

\* pagination: numbers the request leaves out or that do not parse have been
\* replaced by 1 and 20.
PageNo(asked)   == IF asked < 1 THEN 1 ELSE asked
PageSize(asked) == IF asked < 1 THEN 20 ELSE IF asked > 100 THEN 100 ELSE asked

\* bounds.
Before(no, size) == (no - 1) * size
AtMost(limit, i) == IF i > limit THEN limit ELSE i
Start(half, total, no, size) == AtMost(total, Wrap(half, Before(no, size)))
End(half, total, no, size)   == AtMost(total, Wrap(half, Start(half, total, no, size) + size))

\* filtered[start:end] is an expression Go evaluates without a panic.
Slices(half, total, no, size) ==
  /\ 0 <= Start(half, total, no, size)
  /\ Start(half, total, no, size) <= End(half, total, no, size)
  /\ End(half, total, no, size) <= total

\* The numbers of a request that stay within int.
Fits(half, total, no, size) == Before(no, size) < half /\ total + size < half

-----------------------------------------------------------------------------
LEMMA WithinInt ==
  ASSUME NEW half \in Nat, NEW i \in Nat, i < half
  PROVE  Wrap(half, i) = i
<1>1. i + half \in 0..(2 * half - 1)
  OBVIOUS
<1>2. (i + half) % (2 * half) = i + half
  BY <1>1
<1> QED
  BY <1>2 DEF Wrap

LEMMA BeforeNext ==
  ASSUME NEW no \in Nat \ {0}, NEW size \in 1..100
  PROVE  /\ Before(no, size) \in Nat
         /\ Before(1, size) = 0
         /\ Before(no + 1, size) = Before(no, size) + size
BY DEF Before

\* Where a page starts and ends, in numbers that fit.
LEMMA StartIs ==
  ASSUME NEW half \in Nat, NEW total \in Nat, NEW no \in Nat \ {0}, NEW size \in 1..100,
         Fits(half, total, no, size)
  PROVE  Start(half, total, no, size) = AtMost(total, Before(no, size))
<1>1. Before(no, size) \in Nat /\ Before(no, size) < half
  BY BeforeNext DEF Fits
<1>2. Wrap(half, Before(no, size)) = Before(no, size)
  BY <1>1, WithinInt
<1> QED
  BY <1>2 DEF Start

LEMMA EndIs ==
  ASSUME NEW half \in Nat, NEW total \in Nat, NEW no \in Nat \ {0}, NEW size \in 1..100,
         Fits(half, total, no, size)
  PROVE  End(half, total, no, size) = AtMost(total, Before(no + 1, size))
<1> DEFINE s == Start(half, total, no, size)
<1>1. s = AtMost(total, Before(no, size)) /\ Before(no, size) \in Nat
  BY ZenonT(60), StartIs, BeforeNext
<1> HIDE DEF s
<1>2. s + size \in Nat /\ s + size < half
  BY <1>1 DEF Fits, AtMost
<1>3. Wrap(half, s + size) = s + size
  BY <1>2, WithinInt
<1>4. Before(no + 1, size) = Before(no, size) + size
  BY BeforeNext
<1>5. AtMost(total, s + size) = AtMost(total, Before(no, size) + size)
  BY <1>1 DEF AtMost
<1> QED
  BY <1>3, <1>4, <1>5 DEF End, s

\* Whatever a request asks for, a page has between 1 and 100 rows and a number
\* from 1 on (pagination).
THEOREM PageIsLimited ==
  ASSUME NEW no \in Int, NEW size \in Int
  PROVE  PageNo(no) \in Nat \ {0} /\ PageSize(size) \in 1..100
BY DEF PageNo, PageSize

\* A page that is asked for is a part of the list, though the list may have
\* become shorter since the client counted its pages (bounds).
THEOREM PageIsSlice ==
  ASSUME NEW half \in Nat, NEW total \in Nat, NEW no \in Nat \ {0}, NEW size \in 1..100,
         Fits(half, total, no, size)
  PROVE  /\ Slices(half, total, no, size)
         /\ End(half, total, no, size) - Start(half, total, no, size) <= size
<1>1. Before(no, size) \in Nat /\ Before(no + 1, size) = Before(no, size) + size
  BY BeforeNext
<1>2. Start(half, total, no, size) = AtMost(total, Before(no, size))
  BY StartIs
<1>3. End(half, total, no, size) = AtMost(total, Before(no + 1, size))
  BY EndIs
<1> QED
  BY <1>1, <1>2, <1>3 DEF Slices, AtMost

\* The pages are the list, without a row twice or a row left out: the first one
\* begins with it, each one begins where the one before ends, and a page that
\* could hold the rest ends with the list (bounds).
THEOREM PagesAreTheList ==
  ASSUME NEW half \in Nat, NEW total \in Nat, NEW no \in Nat \ {0}, NEW size \in 1..100,
         Fits(half, total, no + 1, size)
  PROVE  /\ Start(half, total, 1, size) = 0
         /\ Start(half, total, no + 1, size) = End(half, total, no, size)
         /\ no * size >= total => End(half, total, no, size) = total
<1>0. /\ Before(no, size) \in Nat /\ Before(1, size) = 0
      /\ Before(no + 1, size) = Before(no, size) + size
  BY BeforeNext
<1>1. Fits(half, total, no, size) /\ Fits(half, total, 1, size) /\ no + 1 \in Nat \ {0}
  BY <1>0 DEF Fits
<1>2. Start(half, total, no + 1, size) = AtMost(total, Before(no + 1, size))
  BY ZenonT(60), <1>1, StartIs
<1>3. End(half, total, no, size) = AtMost(total, Before(no + 1, size))
  BY ZenonT(60), <1>1, EndIs
<1>4. Start(half, total, 1, size) = AtMost(total, Before(1, size))
  <2>1. 1 \in Nat \ {0}
    OBVIOUS
  <2> QED
    BY ZenonT(60), <1>1, <2>1, StartIs
<1>5. Before(no + 1, size) = no * size
  BY DEF Before
<1> QED
  BY <1>0, <1>2, <1>3, <1>4, <1>5 DEF AtMost
=============================================================================
