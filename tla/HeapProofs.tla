----------------------------- MODULE HeapProofs -----------------------------
(***************************************************************************)
(* Proofs about the heap for every size of pages, headers and requests,    *)
(* every alignment and every place where the linker puts its pages.        *)
(*                                                                         *)
(* Majors lie one behind the other, each is at most as full as it is long, *)
(* and its only block fits behind its header, however far ALIGN moves it.  *)
(* That makes the blocks lie apart, and each step of malloc and realloc a  *)
(* step of Allocator or none at all.  A turn of malloc's loop is a step,   *)
(* which is true to the code for one caller at a time: see LockExcludes.   *)
(***************************************************************************)
EXTENDS Heap, TLAPS

MajorType == [base : Nat, size : Nat, usage : Nat, next : Nat,
              first : BOOLEAN, minor : Minors]

\* The end of the pages MmVmAllocate has handed out.
Extent == offset + brk * l_pageSize

EndOf(major) == major.base + major.size

Layout ==
    /\ \A i \in Majors : EndOf(majors[i]) <= Extent
    /\ \A i, j \in Majors : i < j => EndOf(majors[i]) <= majors[j].base

\* New majors are linked behind the last one only.
Chain ==
    /\ l_memRoot = IF majors = << >> THEN 0 ELSE 1
    /\ \A i \in Majors :
          majors[i].next = IF i = Len(majors) THEN 0 ELSE i + 1

\* What UsageAccounted and BlockInItsMajor say of one major.
Accounted(major) ==
    /\ major.usage = MajorSize + (IF major.first
                                  THEN MinorSize + major.minor.size ELSE 0)
    /\ major.usage <= major.size

BlockInside(major) ==
    major.first =>
        /\ major.minor.p % ALIGNMENT = 0
        /\ MinorEnd(major) + ALIGN_INFO <= major.minor.p
        /\ major.minor.p + major.minor.req_size <= major.base + major.size

MajorsInv ==
    /\ offset \in 0..(l_pageSize - 1)
    /\ brk \in 0..HeapPages
    /\ majors \in Seq(MajorType)
    /\ Layout /\ Chain
    /\ \A i \in Majors : Accounted(majors[i]) /\ BlockInside(majors[i])

InUse(m) == m \in Majors /\ majors[m].first

CallType == [at : Points, then : {"root", "check"}, req_size : Requests \cup {0},
             maj : Nat, startedBet : BOOLEAN, bestSize : Nat, m : Nat, old : Nat]

\* What a call refers to exists; what it may shorten or return is in use.
CallOK(x) ==
    /\ x.maj \in Indices /\ x.m \in Indices /\ x.old \in Indices
    /\ x.at \in {"lock", "take", "root", "loop", "check"} =>
           x.req_size \in Requests
    /\ x.at = "loop" => x.maj \in Majors
    /\ x.at = "check" => x.then = "check"
    /\ x.then = "check" => InUse(x.old)
    /\ x.m # 0 => InUse(x.m)

HeldInUse(c) == \A m \in held[c] : InUse(m)

CallsInv ==
    /\ l_bestBet \in Indices
    /\ LibAllocLock \in BOOLEAN
    /\ call \in [Callers -> CallType]
    /\ held \in [Callers -> SUBSET Nat]
    /\ \A c \in Callers : CallOK(call[c]) /\ HeldInUse(c)

Inv == MajorsInv /\ CallsInv

SingleCaller == \E c : Callers = {c}

\* Where a thread is while it holds the lock.
Locked == {"root", "loop", "check", "unlock", "panic"}

AllUsed == \A i \in Majors : majors[i].first

\* Where a major may be empty for a while: the last one, which the search is
\* about to use.
UsedInv ==
    \A c \in Callers :
        /\ LibAllocLock <=> call[c].at \in Locked
        /\ \A i \in Majors :
              \/ majors[i].first
              \/ /\ call[c].at = "loop" /\ call[c].maj = i /\ i = Len(majors)
                 /\ Free(i) >= Need(call[c].req_size)

------------------------------------------------------------------------------
(* Arithmetic *)

LEMMA DivModNat ==
    ASSUME NEW m \in Nat, NEW u \in Nat \ {0}
    PROVE  /\ m \div u \in Nat /\ m % u \in 0..(u - 1)
           /\ m = u * (m \div u) + (m % u)
    OBVIOUS

LEMMA Multiple ==
    ASSUME NEW q \in Nat, NEW u \in Nat \ {0}
    PROVE  (q * u) % u = 0 /\ (q * u) \div u = q
    OBVIOUS

LEMMA Distribute ==
    ASSUME NEW a \in Nat, NEW b \in Nat, NEW u \in Nat
    PROVE  /\ a * u \in Nat
           /\ (a + b) * u = a * u + b * u
           /\ a <= b => a * u <= b * u
    OBVIOUS

LEMMA RoundUpBounds ==
    ASSUME NEW n \in Nat, NEW u \in Nat \ {0}
    PROVE  /\ RoundUp(n, u) \in Nat
           /\ n <= RoundUp(n, u) /\ RoundUp(n, u) < n + u
           /\ RoundUp(n, u) % u = 0
           /\ RoundUp(n, u) \div u \in Nat
           /\ (RoundUp(n, u) \div u) * u = RoundUp(n, u)
<1> DEFINE m == n + u - 1
           q == m \div u
<1>1. m \in Nat
    OBVIOUS
<1>2. q \in Nat /\ m % u \in 0..(u - 1) /\ m = u * q + (m % u)
    BY <1>1, DivModNat
<1>3. q * u \in Nat /\ q * u = u * q
    BY <1>2
<1>4. n <= q * u /\ q * u < n + u
    BY <1>2, <1>3
<1>5. (q * u) % u = 0 /\ (q * u) \div u = q
    BY <1>2, Multiple
<1>6. RoundUp(n, u) = q * u
    BY DEF RoundUp
<1> HIDE DEF q
<1> QED
    BY <1>2, <1>3, <1>4, <1>5, <1>6

LEMMA MajorFields ==
    ASSUME NEW major \in MajorType
    PROVE  /\ major.base \in Nat /\ major.size \in Nat /\ major.usage \in Nat
           /\ major.next \in Nat /\ major.first \in BOOLEAN
           /\ major.minor \in Minors
           /\ EndOf(major) \in Nat
    BY DEF MajorType, EndOf

\* The pages asked for hold both headers and the padded block.
LEMMA PagesSuffice ==
    ASSUME NEW n \in Requests
    PROVE  /\ n \in Nat /\ Need(n) \in Nat /\ PagesFor(n) \in Nat
           /\ PagesFor(n) * l_pageSize \in Nat
           /\ Need(n) + MajorSize <= PagesFor(n) * l_pageSize
<1> USE ConstantsAssumption
<1> DEFINE x  == Padded(n) + MajorSize + MinorSize
           st == RoundUp(x, l_pageSize) \div l_pageSize
<1>1. n \in Nat /\ Need(n) \in Nat /\ x \in Nat /\ x = Need(n) + MajorSize
    BY DEF Padded, Need
<1>2. st \in Nat /\ x <= st * l_pageSize
    BY <1>1, RoundUpBounds
<1>3. PagesFor(n) \in Nat /\ st <= PagesFor(n)
    BY <1>2 DEF PagesFor
<1> HIDE DEF st, x
<1>4. st * l_pageSize <= PagesFor(n) * l_pageSize
      /\ st * l_pageSize \in Nat /\ PagesFor(n) * l_pageSize \in Nat
    BY <1>2, <1>3, Distribute
<1> QED
    BY <1>1, <1>2, <1>3, <1>4

\* CASE 2: however far ALIGN has to move the block, the padding is enough.
LEMMA CarveFits ==
    ASSUME NEW major \in MajorType, NEW n \in Requests,
           ~major.first, Accounted(major), major.size - major.usage >= Need(n)
    PROVE  /\ Carve(major, n) \in MajorType
           /\ Accounted(Carve(major, n)) /\ BlockInside(Carve(major, n))
           /\ Carve(major, n).first
           /\ Carve(major, n).base = major.base /\ Carve(major, n).size = major.size
           /\ Carve(major, n).next = major.next
           /\ Carve(major, n).minor.req_size = n
<1> USE ConstantsAssumption
<1> DEFINE end == MinorEnd(major)
           top == RoundUp(end + ALIGN_INFO, ALIGNMENT)
           c   == Carve(major, n)
<1>1. n \in Nat /\ major.base \in Nat /\ major.size \in Nat /\ major.usage \in Nat
      /\ major.next \in Nat
    BY DEF MajorType
<1>2. end \in Nat /\ end = major.base + MajorSize + MinorSize
    BY <1>1 DEF MinorEnd
<1> HIDE DEF end
<1>3. /\ top \in Nat /\ top % ALIGNMENT = 0
      /\ end + ALIGN_INFO <= top /\ top < end + ALIGN_INFO + ALIGNMENT
    <2>1. end + ALIGN_INFO \in Nat
        BY <1>2
    <2> QED
        BY <2>1, RoundUpBounds
<1>4. Moved(end) = top - end
    BY DEF Moved
<1> HIDE DEF top
<1>5. Moved(end) \in Nat /\ Moved(end) % ByteRange \in Nat /\ end + Moved(end) = top
    <2>1. Moved(end) \in Nat /\ end + Moved(end) = top
        BY <1>2, <1>3, <1>4
    <2> DEFINE distance == Moved(end)
    <2> HIDE DEF distance
    <2>2. distance % ByteRange \in Nat
        BY <2>1, DivModNat DEF distance
    <2> QED
        BY <2>1, <2>2 DEF distance
<1>6. c = [major EXCEPT !.usage = @ + Need(n), !.first = TRUE,
               !.minor = [size |-> Padded(n), req_size |-> n, p |-> top,
                          info |-> Moved(end) % ByteRange]]
    BY <1>5 DEF Carve, end
<1>7. Padded(n) \in Nat /\ Need(n) = Padded(n) + MinorSize
      /\ Padded(n) = n + ALIGNMENT + ALIGN_INFO
    BY <1>1 DEF Padded, Need
<1>8. /\ c.usage = major.usage + Need(n) /\ c.first = TRUE
      /\ c.base = major.base /\ c.size = major.size /\ c.next = major.next
      /\ c.minor = [size |-> Padded(n), req_size |-> n, p |-> top,
                    info |-> Moved(end) % ByteRange]
    BY <1>6 DEF MajorType
<1>9. c \in MajorType
    <2>1. c.minor \in Minors
        BY <1>1, <1>3, <1>5, <1>7, <1>8 DEF Minors
    <2>2. major.usage + Need(n) \in Nat
        BY <1>1, <1>7
    <2> QED
        BY <1>6, <1>8, <2>1, <2>2 DEF MajorType
<1>10. major.usage = MajorSize
    BY <1>1 DEF Accounted
<1>11. Accounted(c)
    BY <1>1, <1>7, <1>8, <1>10 DEF Accounted
<1>12. MinorEnd(c) = end
    BY <1>2, <1>8 DEF MinorEnd
<1>13. top + n <= major.base + major.size
    BY <1>1, <1>2, <1>3, <1>7, <1>10
<1>14. BlockInside(c)
    BY <1>3, <1>8, <1>12, <1>13 DEF BlockInside
<1> QED
    BY <1>8, <1>9, <1>11, <1>14

LEMMA NewMajorFits ==
    ASSUME NEW n \in Requests, MajorsInv
    PROVE  /\ NewMajor(n) \in MajorType /\ Accounted(NewMajor(n))
           /\ ~NewMajor(n).first /\ NewMajor(n).next = 0
           /\ NewMajor(n).base = Extent
           /\ EndOf(NewMajor(n)) = Extent + PagesFor(n) * l_pageSize
           /\ NewMajor(n).size - NewMajor(n).usage >= Need(n)
<1> USE ConstantsAssumption
<1>1. /\ PagesFor(n) * l_pageSize \in Nat /\ Need(n) \in Nat
      /\ Need(n) + MajorSize <= PagesFor(n) * l_pageSize
    BY PagesSuffice
<1>2. Extent \in Nat
    <2>1. brk \in Nat /\ offset \in Nat /\ brk * l_pageSize \in Nat
        BY Distribute DEF MajorsInv
    <2> QED
        BY <2>1 DEF Extent
<1> DEFINE k == PagesFor(n) * l_pageSize
<1>3. NewMajor(n) = [base |-> Extent, size |-> k, usage |-> MajorSize, next |-> 0,
                     first |-> FALSE, minor |-> NoMinor]
    BY DEF NewMajor, Extent
<1>4. NoMinor \in Minors
    BY DEF NoMinor, Minors
<1> HIDE DEF k
<1>5. k \in Nat /\ Need(n) + MajorSize <= k
    BY <1>1 DEF k
<1>6. NewMajor(n) \in MajorType
    BY <1>2, <1>3, <1>4, <1>5 DEF MajorType
<1>7. Accounted(NewMajor(n)) /\ NewMajor(n).size - NewMajor(n).usage >= Need(n)
    BY <1>1, <1>3, <1>5 DEF Accounted
<1> QED
    BY <1>3, <1>6, <1>7 DEF EndOf, k

------------------------------------------------------------------------------
(* What a step does to the majors *)

\* A new major, in use or not, linked behind the last one.
LEMMA AddMajor ==
    ASSUME MajorsInv, NEW n \in Requests, Available(n),
           NEW major \in MajorType, Accounted(major), BlockInside(major),
           major.base = Extent,
           EndOf(major) = Extent + PagesFor(n) * l_pageSize, major.next = 0,
           NEW prior \in Seq(MajorType), Len(prior) = Len(majors),
           \A i \in Majors : prior[i] = [majors[i] EXCEPT !.next = i + 1],
           majors' = Append(prior, major), brk' = brk + PagesFor(n),
           offset' = offset, l_memRoot' = 1
    PROVE  /\ MajorsInv'
           /\ Len(majors') = Len(majors) + 1
           /\ majors'[Len(majors) + 1] = major
           /\ \A i \in Majors : /\ majors'[i].first = majors[i].first
                              /\ majors'[i].minor = majors[i].minor
                              /\ majors'[i].next = i + 1
<1> USE ConstantsAssumption
<1> DEFINE len == Len(majors)
<1>1. /\ majors \in Seq(MajorType) /\ len \in Nat
      /\ \A i \in Majors : majors[i] \in MajorType
    BY DEF MajorsInv, Majors
<1>2. /\ majors' \in Seq(MajorType) /\ Len(majors') = len + 1
      /\ majors'[len + 1] = major
      /\ \A i \in 1..len : majors'[i] = prior[i]
    BY <1>1
<1>3. Majors' = 1..(len + 1) /\ Majors = 1..len
    BY <1>2 DEF Majors
<1>4. \A i \in 1..len : majors'[i] = [majors[i] EXCEPT !.next = i + 1]
    BY <1>2, <1>3
<1>5. \A i \in 1..len :
          /\ majors'[i].base = majors[i].base /\ majors'[i].size = majors[i].size
          /\ majors'[i].usage = majors[i].usage
          /\ majors'[i].first = majors[i].first
          /\ majors'[i].minor = majors[i].minor /\ majors'[i].next = i + 1
    <2> TAKE i \in 1..len
    <2>1. majors[i] \in MajorType
        BY <1>1, <1>3
    <2>2. majors'[i] = [majors[i] EXCEPT !.next = i + 1]
        BY <1>4
    <2> QED
        BY <2>1, <2>2 DEF MajorType
<1>6. /\ PagesFor(n) \in Nat /\ brk \in Nat /\ brk' \in 0..HeapPages
      /\ Extent' = Extent + PagesFor(n) * l_pageSize
      /\ Extent \in Nat /\ Extent' \in Nat /\ Extent <= Extent'
    <2>1. brk \in Nat /\ offset \in Nat
        BY DEF MajorsInv
    <2>2. PagesFor(n) \in Nat /\ PagesFor(n) * l_pageSize \in Nat
        BY PagesSuffice
    <2>3. /\ (brk + PagesFor(n)) * l_pageSize
                  = brk * l_pageSize + PagesFor(n) * l_pageSize
          /\ brk * l_pageSize \in Nat
        BY <2>1, <2>2, Distribute
    <2>4. brk' \in 0..HeapPages
        <3>1. brk' = brk + PagesFor(n) /\ brk + PagesFor(n) <= HeapPages
            BY DEF Available
        <3> QED
            BY ONLY <2>1, <2>2, <3>1
    <2> DEFINE old == brk * l_pageSize
               new == PagesFor(n) * l_pageSize
    <2>5. Extent = offset + old
        BY DEF Extent
    <2>6. Extent' = offset + (old + new)
        <3>1. Extent' = offset' + brk' * l_pageSize
            BY DEF Extent
        <3>2. Extent' = offset + (brk + PagesFor(n)) * l_pageSize
            BY ONLY <3>1, brk' = brk + PagesFor(n), offset' = offset
        <3> QED
            BY ONLY <2>3, <3>2
    <2>7. old \in Nat /\ new \in Nat
        BY ONLY <2>2, <2>3
    <2> HIDE DEF old, new
    <2>8. Extent' = Extent + new /\ Extent \in Nat /\ Extent <= Extent'
          /\ Extent' \in Nat
        BY ONLY <2>1, <2>5, <2>6, <2>7
    <2>9. Extent' = Extent + PagesFor(n) * l_pageSize
        BY ONLY <2>8 DEF new
    <2> QED
        BY ONLY <2>1, <2>2, <2>4, <2>8, <2>9
<1>7. Layout'
    <2>1. \A i \in 1..len : EndOf(majors'[i]) = EndOf(majors[i])
        BY <1>5 DEF EndOf
    <2>2. \A i \in 1..len : EndOf(majors[i]) <= Extent
        BY <1>3 DEF MajorsInv, Layout
    <2>3. \A i \in 1..len : EndOf(majors[i]) \in Nat
        BY <1>1, <1>3, MajorFields
    <2>4. \A i \in Majors' : EndOf(majors'[i]) <= Extent'
        <3> TAKE i \in Majors'
        <3>1. CASE i \in 1..len
            <4> DEFINE end == EndOf(majors[i])
                       low == Extent
                       high == Extent'
            <4>1. end <= low /\ end \in Nat
                BY ONLY <2>2, <2>3, <3>1
            <4>2. low <= high /\ low \in Nat /\ high \in Nat
                BY ONLY <1>6
            <4>3. EndOf(majors'[i]) = end
                BY ONLY <2>1, <3>1
            <4> HIDE DEF end, low, high
            <4>4. end <= high
                BY ONLY <4>1, <4>2
            <4> QED
                BY ONLY <4>3, <4>4 DEF high
        <3>2. CASE i = len + 1
            <4> DEFINE high == Extent'
            <4>1. EndOf(majors'[i]) = high
                BY ONLY <1>2, <1>6, <3>2,
                        EndOf(major) = Extent + PagesFor(n) * l_pageSize
            <4>2. high \in Nat
                BY ONLY <1>6
            <4> HIDE DEF high
            <4>3. high <= high
                BY ONLY <4>2
            <4> QED
                BY ONLY <4>1, <4>3 DEF high
        <3> QED
            BY ONLY <1>1, <1>3, <3>1, <3>2
    <2>5. \A i, j \in Majors' : i < j => EndOf(majors'[i]) <= majors'[j].base
        <3> SUFFICES ASSUME NEW i \in Majors', NEW j \in Majors', i < j
                     PROVE  EndOf(majors'[i]) <= majors'[j].base
            OBVIOUS
        <3>1. i \in 1..len
            BY <1>1, <1>3
        <3>2. CASE j \in 1..len
            BY <1>3, <1>5, <2>1, <3>1, <3>2 DEF MajorsInv, Layout
        <3>3. CASE j = len + 1
            BY <1>2, <2>1, <2>2, <3>1, <3>3
        <3> QED
            BY <1>1, <1>3, <3>2, <3>3
    <2> QED
        BY <2>4, <2>5 DEF Layout
<1>8. Chain'
    <2>1. majors' # << >>
        BY <1>2, <1>1
    <2>2. \A i \in Majors' : majors'[i].next = IF i = len + 1 THEN 0 ELSE i + 1
        <3> TAKE i \in Majors'
        <3>1. CASE i \in 1..len
            BY ONLY <1>1, <1>5, <3>1
        <3>2. CASE i = len + 1
            BY ONLY <1>2, <3>2, major.next = 0
        <3> QED
            BY ONLY <1>1, <1>3, <3>1, <3>2
    <2> QED
        BY ONLY <1>2, <2>1, <2>2, l_memRoot' = 1 DEF Chain
<1>9. \A i \in Majors' : Accounted(majors'[i]) /\ BlockInside(majors'[i])
    <2> TAKE i \in Majors'
    <2>1. CASE i \in 1..len
        <3>1. Accounted(majors[i]) /\ BlockInside(majors[i])
            BY <1>3, <2>1 DEF MajorsInv
        <3> QED
            BY <1>5, <2>1, <3>1 DEF Accounted, BlockInside, MinorEnd
    <2>2. CASE i = len + 1
        BY <1>2, <2>2
    <2> QED
        BY <1>1, <1>3, <2>1, <2>2
<1> QED
    BY <1>2, <1>3, <1>5, <1>6, <1>7, <1>8, <1>9 DEF MajorsInv

\* A major whose block is carved out or cut.
LEMMA ChangeMajor ==
    ASSUME MajorsInv, NEW i \in Majors,
           NEW major \in MajorType, Accounted(major), BlockInside(major),
           major.base = majors[i].base, major.size = majors[i].size,
           major.next = majors[i].next,
           majors' = [majors EXCEPT ![i] = major],
           offset' = offset, brk' = brk, l_memRoot' = l_memRoot
    PROVE  /\ MajorsInv'
           /\ Len(majors') = Len(majors)
           /\ majors'[i] = major
           /\ \A j \in Majors \ {i} : majors'[j] = majors[j]
<1> USE ConstantsAssumption
<1>1. majors \in Seq(MajorType) /\ Len(majors) \in Nat
    BY DEF MajorsInv
<1>2. /\ majors' \in Seq(MajorType) /\ Len(majors') = Len(majors)
      /\ majors'[i] = major /\ \A j \in Majors \ {i} : majors'[j] = majors[j]
    BY <1>1 DEF Majors
<1>3. Majors' = Majors /\ Extent' = Extent
    BY <1>2 DEF Majors, Extent
<1>4. \A j \in Majors :
          /\ majors'[j].base = majors[j].base /\ majors'[j].size = majors[j].size
          /\ majors'[j].next = majors[j].next
    BY <1>2
<1>5. Layout'
    BY <1>3, <1>4 DEF MajorsInv, Layout, EndOf
<1>6. Chain'
    <2>1. majors # << >> /\ majors' # << >>
        BY <1>1, <1>2 DEF Majors
    <2> QED
        BY <1>2, <1>3, <1>4, <2>1 DEF MajorsInv, Chain
<1>7. \A j \in Majors' : Accounted(majors'[j]) /\ BlockInside(majors'[j])
    BY <1>2, <1>3 DEF MajorsInv
<1> QED
    BY <1>2, <1>3, <1>5, <1>6, <1>7 DEF MajorsInv

LEMMA MajorsUnchanged ==
    ASSUME MajorsInv, offset' = offset, brk' = brk, l_memRoot' = l_memRoot,
           majors' = majors
    PROVE  MajorsInv'
<1> QED
    BY DEF MajorsInv, Layout, Chain, Majors, Extent

------------------------------------------------------------------------------
(* The steps that change a major *)

\* The root is made when there is none.
LEMMA RootStep ==
    ASSUME MajorsInv, NEW c \in Callers, call[c].req_size \in Requests,
           Root(c), l_memRoot = 0, Available(call[c].req_size)
    PROVE  /\ MajorsInv' /\ majors = << >> /\ Len(majors') = 1
           /\ ~majors'[1].first
           /\ majors'[1].size - majors'[1].usage >= Need(call[c].req_size)
<1> DEFINE n == call[c].req_size
<1>1. majors = << >> /\ Majors = {}
    BY DEF MajorsInv, Chain, Majors
<1>2. /\ NewMajor(n) \in MajorType /\ Accounted(NewMajor(n))
      /\ ~NewMajor(n).first /\ NewMajor(n).next = 0
      /\ NewMajor(n).base = Extent
      /\ EndOf(NewMajor(n)) = Extent + PagesFor(n) * l_pageSize
      /\ NewMajor(n).size - NewMajor(n).usage >= Need(n)
    BY NewMajorFits
<1>3. BlockInside(NewMajor(n))
    BY <1>2 DEF BlockInside
<1>4. majors' = Append(majors, NewMajor(n)) /\ brk' = brk + PagesFor(n)
      /\ offset' = offset /\ l_memRoot' = 1
    BY <1>1 DEF Root
<1>5. /\ majors \in Seq(MajorType) /\ Len(majors) = 0
      /\ \A i \in Majors : majors[i] = [majors[i] EXCEPT !.next = i + 1]
    BY <1>1 DEF MajorsInv
<1>6. MajorsInv' /\ Len(majors') = 1 /\ majors'[1] = NewMajor(n)
    <2>1. n \in Requests /\ Available(n)
        OBVIOUS
    <2> DEFINE new == NewMajor(n)
    <2>2. /\ new \in MajorType /\ Accounted(new) /\ BlockInside(new)
          /\ new.base = Extent /\ EndOf(new) = Extent + PagesFor(n) * l_pageSize
          /\ new.next = 0 /\ majors' = Append(majors, new)
        BY <1>2, <1>3, <1>4
    <2> HIDE DEF n, new
    <2>3. /\ MajorsInv' /\ Len(majors') = Len(majors) + 1
          /\ majors'[Len(majors) + 1] = new
        BY <1>4, <1>5, <2>1, <2>2, AddMajor
    <2> QED
        BY <1>5, <2>3 DEF new
<1> QED
    BY <1>1, <1>2, <1>6 DEF n

\* What Grow links.
Grown(c) == IF Case1(c) THEN Carve(NewMajor(call[c].req_size), call[c].req_size)
            ELSE NewMajor(call[c].req_size)

LEMMA GrowStep ==
    ASSUME MajorsInv, NEW c \in Callers, call[c].req_size \in Requests,
           call[c].maj \in Majors,
           Grow(c), Available(call[c].req_size)
    PROVE  /\ MajorsInv' /\ call[c].maj = Len(majors)
           /\ Len(majors') = Len(majors) + 1
           /\ \A i \in Majors : /\ majors'[i].first = majors[i].first
                              /\ majors'[i].minor = majors[i].minor
                              /\ majors'[i].next = i + 1
           /\ majors'[Len(majors) + 1] = Grown(c)
           /\ Grown(c).first <=> Case1(c)
           /\ Case1(c) => Grown(c).minor.req_size = call[c].req_size
           /\ ~Case1(c) => Grown(c).size - Grown(c).usage
                               >= Need(call[c].req_size)
<1> DEFINE n     == call[c].req_size
           k     == call[c].maj
           prior == [majors EXCEPT ![k].next = Len(majors) + 1]
<1>1. /\ majors \in Seq(MajorType) /\ Len(majors) \in Nat
      /\ \A i \in Majors : majors[i] \in MajorType
    BY DEF MajorsInv, Majors
<1>2. k = Len(majors)
    <2>1. majors[k].next = 0
        BY DEF Grow, Last
    <2> QED
        BY <1>1, <2>1 DEF MajorsInv, Chain, Majors
<1>3. /\ NewMajor(n) \in MajorType /\ Accounted(NewMajor(n))
      /\ ~NewMajor(n).first /\ NewMajor(n).next = 0
      /\ NewMajor(n).base = Extent
      /\ EndOf(NewMajor(n)) = Extent + PagesFor(n) * l_pageSize
      /\ NewMajor(n).size - NewMajor(n).usage >= Need(n)
    BY NewMajorFits
<1>4. /\ Carve(NewMajor(n), n) \in MajorType
      /\ Accounted(Carve(NewMajor(n), n)) /\ BlockInside(Carve(NewMajor(n), n))
      /\ Carve(NewMajor(n), n).first /\ Carve(NewMajor(n), n).next = 0
      /\ Carve(NewMajor(n), n).base = Extent
      /\ EndOf(Carve(NewMajor(n), n)) = Extent + PagesFor(n) * l_pageSize
      /\ Carve(NewMajor(n), n).minor.req_size = n
    BY <1>3, CarveFits DEF EndOf
<1>5. /\ Grown(c) \in MajorType /\ Accounted(Grown(c)) /\ BlockInside(Grown(c))
      /\ Grown(c).next = 0 /\ Grown(c).base = Extent
      /\ EndOf(Grown(c)) = Extent + PagesFor(n) * l_pageSize
    BY <1>3, <1>4 DEF Grown, BlockInside
<1>6. /\ prior \in Seq(MajorType) /\ Len(prior) = Len(majors)
      /\ \A i \in Majors : prior[i] = [majors[i] EXCEPT !.next = i + 1]
    <2>1. prior = [majors EXCEPT ![k] = [majors[k] EXCEPT !.next = k + 1]]
        BY <1>2
    <2>2. [majors[k] EXCEPT !.next = k + 1] \in MajorType
        BY <1>1, <1>2 DEF MajorType
    <2>3. prior \in Seq(MajorType) /\ Len(prior) = Len(majors)
        <3> DEFINE linked == [majors[k] EXCEPT !.next = k + 1]
        <3>1. linked \in MajorType /\ prior = [majors EXCEPT ![k] = linked]
            BY <2>1, <2>2
        <3>2. k \in 1..Len(majors)
            BY DEF Majors
        <3> HIDE DEF k, linked, prior
        <3> QED
            BY <1>1, <3>1, <3>2
    <2>4. ASSUME NEW i \in Majors
          PROVE  prior[i] = [majors[i] EXCEPT !.next = i + 1]
        <3>1. CASE i = k
            BY <1>1, <2>1, <3>1 DEF Majors
        <3>2. CASE i # k
            <4>1. prior[i] = majors[i]
                BY <1>1, <2>1, <3>2 DEF Majors
            <4>2. majors[i].next = i + 1
                BY <1>2, <3>2 DEF MajorsInv, Chain
            <4> QED
                BY <1>1, <4>1, <4>2 DEF MajorType
        <3> QED
            BY <3>1, <3>2
    <2> QED
        BY <2>3, <2>4
<1>7. /\ majors' = Append(prior, Grown(c)) /\ brk' = brk + PagesFor(n)
      /\ offset' = offset
    BY DEF Grow, Grown
<1>8. l_memRoot' = 1
    BY <1>1 DEF Grow, MajorsInv, Chain, Majors
<1>9. /\ MajorsInv' /\ Len(majors') = Len(majors) + 1
      /\ majors'[Len(majors) + 1] = Grown(c)
      /\ \A i \in Majors : /\ majors'[i].first = majors[i].first
                         /\ majors'[i].minor = majors[i].minor
                         /\ majors'[i].next = i + 1
    <2> HIDE DEF n, prior
    <2> QED
        BY <1>5, <1>6, <1>7, <1>8, AddMajor DEF n
<1> QED
    BY <1>2, <1>3, <1>4, <1>9 DEF Grown

LEMMA TakeStep ==
    ASSUME MajorsInv, NEW c \in Callers, call[c].req_size \in Requests,
           call[c].maj \in Majors, Take(c)
    PROVE  /\ MajorsInv' /\ Len(majors') = Len(majors)
           /\ ~majors[call[c].maj].first /\ majors'[call[c].maj].first
           /\ majors'[call[c].maj].minor.req_size = call[c].req_size
           /\ \A i \in Majors \ {call[c].maj} : majors'[i] = majors[i]
<1> DEFINE n == call[c].req_size
           k == call[c].maj
<1>1. majors[k] \in MajorType /\ Accounted(majors[k])
    BY DEF MajorsInv, Majors
<1>2. ~majors[k].first /\ majors[k].size - majors[k].usage >= Need(n)
    <2>1. ~(Free(k) < Need(n)) /\ ~majors[k].first
        BY DEF Take, Case2, Case1
    <2>2. Free(k) \in Int /\ Need(n) \in Int
        BY <1>1, MajorFields, PagesSuffice DEF Free
    <2> QED
        BY <2>1, <2>2 DEF Free
<1>3. /\ Carve(majors[k], n) \in MajorType
      /\ Accounted(Carve(majors[k], n)) /\ BlockInside(Carve(majors[k], n))
      /\ Carve(majors[k], n).first
      /\ Carve(majors[k], n).base = majors[k].base
      /\ Carve(majors[k], n).size = majors[k].size
      /\ Carve(majors[k], n).next = majors[k].next
      /\ Carve(majors[k], n).minor.req_size = n
    BY <1>1, <1>2, CarveFits
<1>4. /\ majors' = [majors EXCEPT ![k] = Carve(majors[k], n)]
      /\ offset' = offset /\ brk' = brk /\ l_memRoot' = l_memRoot
    BY DEF Take
<1>5. /\ MajorsInv' /\ Len(majors') = Len(majors)
      /\ majors'[k] = Carve(majors[k], n)
      /\ \A i \in Majors \ {k} : majors'[i] = majors[i]
    BY <1>3, <1>4, ChangeMajor
<1> QED
    BY <1>2, <1>3, <1>5

\* A block that is cut ends where it ended, or before.
LEMMA CutStep ==
    ASSUME MajorsInv, NEW c \in Callers, call[c].req_size \in Requests,
           InUse(call[c].old), Cut(c)
    PROVE  /\ MajorsInv' /\ Len(majors') = Len(majors)
           /\ majors'[call[c].old].first
           /\ majors'[call[c].old].minor.p = majors[call[c].old].minor.p
           /\ majors'[call[c].old].minor.req_size = call[c].req_size
           /\ call[c].req_size <= majors[call[c].old].minor.req_size
           /\ \A i \in Majors \ {call[c].old} : majors'[i] = majors[i]
<1> DEFINE n   == call[c].req_size
           k   == call[c].old
           cut == [majors[k] EXCEPT !.minor.req_size = n]
<1>1. /\ k \in Majors /\ majors[k].first
      /\ majors[k] \in MajorType /\ Accounted(majors[k]) /\ BlockInside(majors[k])
    BY DEF MajorsInv, Majors, InUse
<1>2. n \in Nat /\ majors[k].minor \in Minors
    BY <1>1, ConstantsAssumption, MajorFields
<1>3. n <= majors[k].minor.req_size
    BY <1>2 DEF Cut, Minors
<1>4. /\ cut.base = majors[k].base /\ cut.size = majors[k].size
      /\ cut.usage = majors[k].usage /\ cut.next = majors[k].next
      /\ cut.first = majors[k].first
      /\ cut.minor = [majors[k].minor EXCEPT !.req_size = n]
    BY <1>1 DEF MajorType
<1>5. /\ cut.minor.size = majors[k].minor.size /\ cut.minor.p = majors[k].minor.p
      /\ cut.minor.req_size = n /\ cut.minor \in Minors
    BY <1>2, <1>4 DEF Minors
<1>6. cut \in MajorType
    BY <1>1, <1>4, <1>5 DEF MajorType
<1>7. Accounted(cut)
    BY <1>1, <1>4, <1>5 DEF Accounted
<1>8. BlockInside(cut)
    <2>1. majors[k].base \in Nat /\ majors[k].size \in Nat
          /\ majors[k].minor.p \in Nat /\ majors[k].minor.req_size \in Nat
        BY <1>1, <1>2, MajorFields DEF Minors
    <2>2. MinorEnd(cut) = MinorEnd(majors[k])
        BY <1>4 DEF MinorEnd
    <2> DEFINE p == majors[k].minor.p
               q == majors[k].minor.req_size
               e == majors[k].base + majors[k].size
    <2>3. /\ p % ALIGNMENT = 0 /\ MinorEnd(majors[k]) + ALIGN_INFO <= p
          /\ p + q <= e
        BY <1>1 DEF BlockInside
    <2>4. p + n <= e
        <3>1. p + q <= e /\ n <= q /\ p \in Nat /\ q \in Nat /\ n \in Nat
            BY ONLY <1>2, <1>3, <2>1, <2>3
        <3>2. e \in Nat
            BY ONLY <2>1
        <3> HIDE DEF e, p, q, n
        <3> QED
            BY ONLY <3>1, <3>2
    <2>5. /\ cut.minor.p = p /\ cut.minor.req_size = n
          /\ cut.base + cut.size = e
        BY ONLY <1>4, <1>5
    <2> HIDE DEF e, p, q, n, cut
    <2> QED
        BY ONLY <2>2, <2>3, <2>4, <2>5 DEF BlockInside
<1>9. /\ majors' = [majors EXCEPT ![k] = cut]
      /\ offset' = offset /\ brk' = brk /\ l_memRoot' = l_memRoot
    BY DEF Cut
<1>10. /\ MajorsInv' /\ Len(majors') = Len(majors) /\ majors'[k] = cut
       /\ \A i \in Majors \ {k} : majors'[i] = majors[i]
    <2> HIDE DEF cut
    <2> QED
        BY <1>1, <1>4, <1>6, <1>7, <1>8, <1>9, ChangeMajor
<1> QED
    BY <1>1, <1>3, <1>4, <1>5, <1>10

------------------------------------------------------------------------------
(* What a step does to the calls *)

\* No major is forgotten, and none that is in use becomes empty again.
NoneLost ==
    /\ Len(majors) \in Nat /\ Len(majors') \in Nat
    /\ Len(majors) <= Len(majors')
    /\ \A i \in Majors : majors[i].first => majors'[i].first

LEMMA StillInUse ==
    ASSUME NoneLost
    PROVE  /\ Majors \subseteq Majors' /\ Indices \subseteq Indices'
           /\ \A m : InUse(m) => InUse(m)'
<1>1. Majors \subseteq Majors' /\ Indices \subseteq Indices'
    BY DEF NoneLost, Majors, Indices
<1> QED
    BY <1>1 DEF NoneLost, InUse

LEMMA StillOK ==
    ASSUME NoneLost, NEW x, CallOK(x)
    PROVE  CallOK(x)'
<1> QED
    BY StillInUse DEF CallOK

\* Only the caller that takes the step changes its call.
LEMMA OtherCalls ==
    ASSUME CallsInv, NoneLost, NEW c \in Callers,
           call' \in [Callers -> CallType], held' \in [Callers -> SUBSET Nat],
           \A d \in Callers \ {c} : call'[d] = call[d] /\ held'[d] = held[d],
           CallOK(call[c])', HeldInUse(c)',
           l_bestBet' \in Indices', LibAllocLock' \in BOOLEAN
    PROVE  CallsInv'
<1>1. ASSUME NEW d \in Callers
      PROVE  CallOK(call[d])' /\ HeldInUse(d)'
    <2>1. CASE d = c
        BY <2>1
    <2>2. CASE d # c
        <3>1. CallOK(call[d]) /\ HeldInUse(d)
            BY DEF CallsInv
        <3>2. call'[d] = call[d] /\ held'[d] = held[d]
            BY <2>2
        <3>3. CallOK(call[d])'
            <4>1. \A x : CallOK(x) => CallOK(x)'
                BY StillOK
            <4> QED
                BY <3>1, <3>2, <4>1 DEF CallOK
        <3>4. HeldInUse(d)'
            BY <3>1, <3>2, StillInUse DEF HeldInUse
        <3> QED
            BY <3>3, <3>4
    <2> QED
        BY <2>1, <2>2
<1> QED
    BY <1>1 DEF CallsInv

LEMMA OneCall ==
    ASSUME CallsInv, NoneLost, NEW c \in Callers, NEW x \in CallType,
           call' = [call EXCEPT ![c] = x], held' = held,
           CallOK(x)', l_bestBet' \in Indices', LibAllocLock' \in BOOLEAN
    PROVE  CallsInv'
<1>1. /\ call' \in [Callers -> CallType] /\ call'[c] = x
      /\ \A d \in Callers \ {c} : call'[d] = call[d] /\ held'[d] = held[d]
      /\ held' \in [Callers -> SUBSET Nat]
    BY DEF CallsInv
<1>2. CallOK(call[c])'
    BY <1>1 DEF CallOK
<1>3. HeldInUse(c)'
    BY StillInUse DEF CallsInv, HeldInUse
<1> QED
    BY <1>1, <1>2, <1>3, OtherCalls

\* Steps that touch no major.
LEMMA CallOnly ==
    ASSUME Inv, NEW c \in Callers, NEW x \in CallType, CallOK(x),
           call' = [call EXCEPT ![c] = x],
           UNCHANGED <<offset, brk, majors, l_memRoot, held>>,
           l_bestBet' \in Indices, LibAllocLock' \in BOOLEAN
    PROVE  Inv'
<1>1. MajorsInv'
    BY MajorsUnchanged DEF Inv
<1>2. NoneLost
    BY DEF NoneLost, Inv, MajorsInv
<1>3. CallOK(x)' /\ l_bestBet' \in Indices'
    BY <1>2, StillOK, StillInUse
<1>4. CallsInv'
    BY <1>2, <1>3, OneCall DEF Inv
<1> QED
    BY <1>1, <1>4 DEF Inv

\* Steps that add or change a major.
LEMMA CallMoves ==
    ASSUME Inv, NoneLost, MajorsInv', NEW c \in Callers, NEW x \in CallType,
           call' = [call EXCEPT ![c] = x], held' = held,
           l_bestBet' \in Indices, LibAllocLock' \in BOOLEAN,
           x.maj \in Majors' \/ (x.at = "unlock" /\ x.maj \in Indices),
           x.old = call[c].old, x.then = call[c].then,
           x.at \in {"loop", "unlock"}, x.req_size \in Requests,
           x.m # 0 => x.m \in Majors' /\ majors'[x.m].first
    PROVE  Inv'
<1>1. CallOK(call[c]) /\ CallsInv
    BY DEF Inv, CallsInv
<1>2. x.old \in Indices /\ (x.then = "check" => InUse(x.old))
    BY <1>1 DEF CallOK
<1>3. /\ Indices \subseteq Indices' /\ \A m : InUse(m) => InUse(m)'
      /\ Majors' \subseteq Indices' /\ 0 \in Indices'
    <2>1. Len(majors') \in Nat
        BY DEF NoneLost
    <2> QED
        BY <2>1, StillInUse DEF Majors, Indices
<1>4. CallOK(x)'
    BY <1>2, <1>3 DEF CallOK, InUse
<1>5. CallsInv'
    BY <1>1, <1>3, <1>4, OneCall
<1> QED
    BY <1>5 DEF Inv

\* The loop is in a major, and may note it as the best bet.
LEMMA LoopFacts ==
    ASSUME Inv, NEW c \in Callers, call[c].at = "loop"
    PROVE  /\ call[c] \in CallType /\ CallOK(call[c])
           /\ call[c].maj \in Majors /\ call[c].req_size \in Requests
           /\ Remember(c) => l_bestBet' \in Indices
           /\ \E b \in Nat : Remembered(c) = [call[c] EXCEPT !.bestSize = b]
<1> DEFINE k == call[c].maj
<1>1. call[c] \in CallType /\ CallOK(call[c])
    BY DEF Inv, CallsInv
<1>2. k \in Majors /\ call[c].req_size \in Requests
    BY <1>1 DEF CallOK
<1>3. Free(k) \in Nat
    <2>1. majors[k] \in MajorType /\ Accounted(majors[k])
        BY <1>2 DEF Inv, MajorsInv, Majors
    <2> QED
        BY <2>1, MajorFields DEF Accounted, Free
<1>4. Remember(c) => l_bestBet' \in Indices
    BY <1>1, <1>2 DEF Remember, CallOK, Inv, CallsInv
<1>5. \E b \in Nat : Remembered(c) = [call[c] EXCEPT !.bestSize = b]
    <2>1. CASE call[c].bestSize < Free(k)
        BY <1>3, <2>1 DEF Remembered
    <2>2. CASE ~(call[c].bestSize < Free(k))
        <3>1. call[c] = [call[c] EXCEPT !.bestSize = call[c].bestSize]
              /\ call[c].bestSize \in Nat
            BY <1>1 DEF CallType
        <3> QED
            BY <2>2, <3>1 DEF Remembered
    <2> QED
        BY <2>1, <2>2
<1> QED
    BY <1>1, <1>2, <1>4, <1>5

LEMMA InitInv == Init => Inv
<1> SUFFICES ASSUME Init PROVE Inv
    OBVIOUS
<1> USE ConstantsAssumption
<1>1. MajorsInv
    <2>1. majors \in Seq(MajorType) /\ Majors = {}
        BY DEF Init, Majors
    <2> QED
        BY <2>1 DEF Init, MajorsInv, Layout, Chain
<1>2. NoCall \in CallType /\ CallOK(NoCall)
    BY DEF NoCall, CallType, Points, CallOK, Indices, Init
<1>3. CallsInv
    <2>1. /\ l_bestBet \in Indices /\ LibAllocLock \in BOOLEAN
          /\ call \in [Callers -> CallType] /\ held \in [Callers -> SUBSET Nat]
        <3>1. l_bestBet \in Indices /\ LibAllocLock \in BOOLEAN
            <4>1. Len(majors) = 0
                BY DEF Init
            <4>2. l_bestBet \in Indices
                BY <4>1 DEF Init, Indices
            <4>3. LibAllocLock \in BOOLEAN
                BY DEF Init
            <4> QED
                BY <4>2, <4>3
        <3>2. call \in [Callers -> CallType]
            BY <1>2 DEF Init
        <3>3. held \in [Callers -> SUBSET Nat]
            BY DEF Init
        <3> QED
            BY <3>1, <3>2, <3>3
    <2>2. ASSUME NEW c \in Callers
          PROVE  CallOK(call[c]) /\ HeldInUse(c)
        <3>1. call[c] = NoCall /\ held[c] = {}
            BY DEF Init
        <3> QED
            BY <1>2, <3>1 DEF HeldInUse
    <2> QED
        BY <2>1, <2>2 DEF CallsInv
<1> QED
    BY <1>1, <1>3 DEF Inv

\* The steps before the search and around the lock.
LEMMA LockSteps ==
    ASSUME Inv, NEW c \in Callers,
           \/ \E n \in Requests : Malloc(c, n)
           \/ \E m \in held[c], n \in Requests \ {0} : Realloc(c, m, n)
           \/ TestLock(c) \/ TakeLock(c)
    PROVE  Inv'
<1>1. /\ call[c] \in CallType /\ CallOK(call[c]) /\ HeldInUse(c)
      /\ l_bestBet \in Indices /\ LibAllocLock \in BOOLEAN
      /\ Indices \subseteq Nat /\ 0 \in Indices /\ Majors \subseteq Indices
    BY DEF Inv, CallsInv, MajorsInv, Indices, Majors
<1>2. ASSUME NEW n \in Requests, Malloc(c, n)
      PROVE  Inv'
    <2> DEFINE x == [NoCall EXCEPT !.at = "lock", !.req_size = n]
    <2>1. x \in CallType /\ CallOK(x)
        BY <1>1 DEF CallType, CallOK, NoCall, Points
    <2>2. call' = [call EXCEPT ![c] = x]
          /\ UNCHANGED <<offset, brk, majors, l_memRoot, l_bestBet, LibAllocLock, held>>
        BY <1>2 DEF Malloc
    <2> HIDE DEF x
    <2> QED
        BY <1>1, <2>1, <2>2, CallOnly
<1>3. ASSUME NEW m \in held[c], NEW n \in Requests \ {0}, Realloc(c, m, n)
      PROVE  Inv'
    <2> DEFINE x == [NoCall EXCEPT !.at = "lock", !.then = "check",
                                   !.req_size = n, !.old = m]
    <2>1. InUse(m) /\ m \in Indices
        BY <1>1 DEF HeldInUse, InUse
    <2>2. x \in CallType /\ CallOK(x)
        BY <1>1, <2>1 DEF CallType, CallOK, NoCall, Points
    <2>3. call' = [call EXCEPT ![c] = x]
          /\ UNCHANGED <<offset, brk, majors, l_memRoot, l_bestBet, LibAllocLock, held>>
        BY <1>3 DEF Realloc
    <2> HIDE DEF x
    <2> QED
        BY <1>1, <2>2, <2>3, CallOnly
<1>4. CASE TestLock(c)
    <2> DEFINE x == [call[c] EXCEPT !.at = "take"]
    <2>1. x \in CallType /\ CallOK(x)
        BY <1>1, <1>4 DEF CallType, CallOK, Points, TestLock
    <2>2. call' = [call EXCEPT ![c] = x]
          /\ UNCHANGED <<offset, brk, majors, l_memRoot, l_bestBet, LibAllocLock, held>>
        BY <1>4 DEF TestLock, Goto
    <2> HIDE DEF x
    <2> QED
        BY <1>1, <2>1, <2>2, CallOnly
<1>5. CASE TakeLock(c)
    <2> DEFINE x == [call[c] EXCEPT !.at = call[c].then]
    <2>1. x \in CallType /\ CallOK(x)
        BY <1>1, <1>5 DEF CallType, CallOK, Points, TakeLock
    <2>2. /\ call' = [call EXCEPT ![c] = x] /\ LibAllocLock' \in BOOLEAN
          /\ UNCHANGED <<offset, brk, majors, l_memRoot, l_bestBet, held>>
        BY <1>5 DEF TakeLock, Goto
    <2> HIDE DEF x
    <2> QED
        BY <1>1, <2>1, <2>2, CallOnly
<1> QED
    BY <1>2, <1>3, <1>4, <1>5

\* The steps of the search that find no major, and of realloc that cut none.
LEMMA SearchSteps ==
    ASSUME Inv, NEW c \in Callers,
           Hop(c) \/ Restart(c) \/ Reject(c) \/ Regrow(c)
    PROVE  Inv'
<1>1. /\ call[c] \in CallType /\ CallOK(call[c])
      /\ l_bestBet \in Indices /\ LibAllocLock \in BOOLEAN
      /\ Indices \subseteq Nat /\ Majors \subseteq Indices
    BY DEF Inv, CallsInv, MajorsInv, Indices, Majors
<1>2. CASE Hop(c)
    <2>1. PICK b \in Nat : Remembered(c) = [call[c] EXCEPT !.bestSize = b]
        BY <1>2, LoopFacts DEF Hop
    <2>2. call[c].maj \in Majors /\ l_bestBet' \in Indices
        BY <1>2, LoopFacts DEF Hop
    <2> DEFINE next == majors[call[c].maj].next
               x    == [Remembered(c) EXCEPT !.maj = next]
    <2>3. next \in Majors
        <3>1. next # 0
            BY <1>2 DEF Hop, Last
        <3> QED
            BY <2>2, <3>1 DEF Inv, MajorsInv, Chain, Majors
    <2>4. call[c].maj = Remembered(c).maj
        BY <1>1, <2>1 DEF CallType
    <2>5. call' = [call EXCEPT ![c] = x]
          /\ UNCHANGED <<offset, brk, majors, l_memRoot, LibAllocLock, held>>
        BY <1>2, <2>4 DEF Hop
    <2> HIDE DEF next
    <2>6. x \in CallType /\ CallOK(x)
        BY <1>1, <1>2, <2>1, <2>3 DEF CallType, CallOK, Hop
    <2> HIDE DEF x
    <2> QED
        BY <1>1, <2>2, <2>5, <2>6, CallOnly
<1>3. CASE Restart(c)
    <2>1. PICK b \in Nat : Remembered(c) = [call[c] EXCEPT !.bestSize = b]
        BY <1>3, LoopFacts DEF Restart
    <2>2. call[c].maj \in Majors /\ l_bestBet' \in Indices
        BY <1>3, LoopFacts DEF Restart
    <2> DEFINE x == [Remembered(c) EXCEPT !.maj = l_memRoot, !.startedBet = FALSE]
    <2>3. l_memRoot \in Majors
        BY <2>2 DEF Inv, MajorsInv, Chain, Majors
    <2>4. call' = [call EXCEPT ![c] = x]
          /\ UNCHANGED <<offset, brk, majors, l_memRoot, LibAllocLock, held>>
        BY <1>3 DEF Restart
    <2>5. x \in CallType /\ CallOK(x)
        BY <1>1, <1>3, <2>1, <2>3 DEF CallType, CallOK, Restart
    <2> HIDE DEF x
    <2> QED
        BY <1>1, <2>2, <2>4, <2>5, CallOnly
<1>4. CASE Reject(c)
    <2> DEFINE x == [call[c] EXCEPT !.at = "unlock"]
    <2>1. x \in CallType /\ CallOK(x)
        BY <1>1, <1>4 DEF CallType, CallOK, Points, Reject
    <2>2. call' = [call EXCEPT ![c] = x]
          /\ UNCHANGED <<offset, brk, majors, l_memRoot, l_bestBet, LibAllocLock, held>>
        BY <1>4 DEF Reject, Goto
    <2> HIDE DEF x
    <2> QED
        BY <1>1, <2>1, <2>2, CallOnly
<1>5. CASE Regrow(c)
    <2> DEFINE x == [call[c] EXCEPT !.at = "lock", !.then = "root"]
    <2>1. x \in CallType /\ CallOK(x)
        BY <1>1, <1>5 DEF CallType, CallOK, Points, Regrow
    <2>2. /\ call' = [call EXCEPT ![c] = x] /\ LibAllocLock' \in BOOLEAN
          /\ UNCHANGED <<offset, brk, majors, l_memRoot, l_bestBet, held>>
        BY <1>1, <1>5 DEF Regrow, CallsInv, Inv
    <2> HIDE DEF x
    <2> QED
        BY <1>1, <2>1, <2>2, CallOnly
<1> QED
    BY <1>2, <1>3, <1>4, <1>5

LEMMA FreeNat ==
    ASSUME Inv, NEW i \in Majors
    PROVE  Free(i) \in Nat
<1>1. majors[i] \in MajorType /\ Accounted(majors[i])
    BY DEF Inv, MajorsInv, Majors
<1> QED
    BY <1>1, MajorFields DEF Accounted, Free

\* The search begins at the root or at the best bet.
LEMMA RootInv ==
    ASSUME Inv, NEW c \in Callers, Root(c)
    PROVE  Inv'
<1> DEFINE n    == call[c].req_size
           fits == l_bestBet # 0 /\ Free(l_bestBet) > Need(n)
           size == IF l_bestBet = 0 THEN 0 ELSE Free(l_bestBet)
           maj  == IF fits THEN l_bestBet ELSE l_memRoot'
           x    == [call[c] EXCEPT !.at = "loop", !.maj = maj,
                                   !.startedBet = fits, !.bestSize = size]
<1>1. /\ call[c] \in CallType /\ CallOK(call[c]) /\ call[c].at = "root"
      /\ l_bestBet \in Indices /\ LibAllocLock \in BOOLEAN
      /\ n \in Requests /\ MajorsInv /\ CallsInv
      /\ UNCHANGED <<offset, l_bestBet, LibAllocLock, held>>
    BY DEF Inv, CallsInv, Root, CallOK
<1>2. l_bestBet \in Nat /\ (l_bestBet # 0 => l_bestBet \in Majors)
      /\ Len(majors) \in Nat
    BY <1>1 DEF Indices, Majors, MajorsInv
<1>3. size \in Nat
    BY <1>2, FreeNat
<1>4. CASE l_memRoot = 0 /\ ~Available(n)
    <2> DEFINE y == [call[c] EXCEPT !.at = "panic"]
    <2>1. y \in CallType /\ CallOK(y)
        BY <1>1 DEF CallType, CallOK, Points
    <2>2. call' = [call EXCEPT ![c] = y] /\ UNCHANGED <<brk, majors, l_memRoot>>
        BY <1>4 DEF Root, Goto
    <2> HIDE DEF y, n, fits, size, maj, x
    <2> QED
        BY <1>1, <2>1, <2>2, CallOnly
<1>5. CASE ~(l_memRoot = 0 /\ ~Available(n))
    <2>1. call' = [call EXCEPT ![c] = x]
        BY <1>5 DEF Root
    <2>2. MajorsInv' /\ NoneLost /\ l_memRoot' \in Majors'
        <3>1. CASE l_memRoot = 0
            <4>1. MajorsInv' /\ majors = << >> /\ Len(majors') = 1
                BY <1>1, <1>5, <3>1, RootStep
            <4>2. Len(majors) = 0 /\ Majors = {}
                BY <4>1 DEF Majors
            <4>3. l_memRoot' \in Majors'
                BY <1>5, <3>1, <4>1, <4>2 DEF Root, Majors
            <4> QED
                BY <4>1, <4>2, <4>3 DEF NoneLost
        <3>2. CASE l_memRoot # 0
            <4>1. UNCHANGED <<offset, brk, majors, l_memRoot>>
                BY <1>5, <3>2 DEF Root
            <4>2. l_memRoot \in Majors
                BY <1>2, <3>2 DEF Inv, MajorsInv, Chain, Majors
            <4> QED
                BY <1>1, <1>2, <4>1, <4>2, MajorsUnchanged DEF NoneLost, Majors
        <3> QED
            BY <3>1, <3>2
    <2>3. maj \in Majors'
        <3>1. Majors \subseteq Majors'
            BY <2>2, StillInUse
        <3> QED
            BY <1>2, <2>2, <3>1
    <2>4. maj \in Nat /\ fits \in BOOLEAN
        BY <2>3 DEF Majors
    <2>5. /\ x \in CallType /\ x.at = "loop" /\ x.maj = maj /\ x.m = call[c].m
          /\ x.old = call[c].old /\ x.then = call[c].then /\ x.req_size = n
        <3> HIDE DEF fits, maj, size
        <3> QED
            BY <1>1, <1>3, <2>4 DEF CallType, Points
    <2>6. x.m # 0 => x.m \in Majors' /\ majors'[x.m].first
        <3>1. call[c].m # 0 => InUse(call[c].m)
            BY <1>1 DEF CallOK
        <3> HIDE DEF x
        <3> QED
            BY <2>2, <2>5, <3>1, StillInUse DEF InUse, NoneLost
    <2>7. LibAllocLock' \in BOOLEAN /\ held' = held /\ l_bestBet' \in Indices
        BY <1>1
    <2> HIDE DEF n, fits, maj, size, x
    <2> QED
        BY <1>1, <2>1, <2>2, <2>3, <2>5, <2>6, <2>7, CallMoves
<1> QED
    BY <1>4, <1>5

LEMMA GrowInv ==
    ASSUME Inv, NEW c \in Callers, Grow(c)
    PROVE  Inv'
<1> DEFINE n == call[c].req_size
<1>1. PICK b \in Nat : Remembered(c) = [call[c] EXCEPT !.bestSize = b]
    BY LoopFacts DEF Grow
<1>2. /\ call[c] \in CallType /\ CallOK(call[c]) /\ call[c].at = "loop"
      /\ call[c].maj \in Majors /\ n \in Requests /\ l_bestBet' \in Indices
      /\ LibAllocLock \in BOOLEAN /\ MajorsInv
      /\ UNCHANGED <<offset, l_memRoot, LibAllocLock, held>>
    BY LoopFacts DEF Grow, Inv, CallsInv
<1>3. CASE ~Available(n)
    <2> DEFINE y == [call[c] EXCEPT !.at = "panic"]
    <2>1. y \in CallType /\ CallOK(y)
        BY <1>2 DEF CallType, CallOK, Points
    <2>2. call' = [call EXCEPT ![c] = y] /\ UNCHANGED <<brk, majors>>
        BY <1>3 DEF Grow, Goto
    <2> HIDE DEF y, n
    <2> QED
        BY <1>2, <2>1, <2>2, CallOnly
<1>4. CASE Available(n)
    <2> DEFINE new == Len(majors) + 1
    <2>1. /\ MajorsInv' /\ Len(majors) \in Nat /\ Len(majors') = new
          /\ majors'[new] = Grown(c) /\ (Grown(c).first <=> Case1(c))
          /\ \A i \in Majors : majors'[i].first = majors[i].first
        BY <1>2, <1>4, GrowStep DEF MajorsInv
    <2>2. NoneLost /\ new \in Majors' /\ new \in Nat
        BY <2>1 DEF NoneLost, Majors
    <2>3. /\ LibAllocLock' \in BOOLEAN /\ held' = held
        BY <1>2
    <2>4. CASE Case1(c)
        <3> DEFINE x == [Remembered(c) EXCEPT !.at = "unlock",
                                              !.maj = new, !.m = new]
        <3>1. call' = [call EXCEPT ![c] = x]
            BY <1>4, <2>4 DEF Grow
        <3> HIDE DEF new
        <3>2. /\ x \in CallType /\ x.at = "unlock" /\ x.maj = new /\ x.m = new
              /\ x.old = call[c].old /\ x.then = call[c].then /\ x.req_size = n
            BY <1>1, <1>2, <2>2 DEF CallType, Points
        <3> HIDE DEF x, n
        <3> QED
            BY <1>2, <2>1, <2>2, <2>3, <2>4, <3>1, <3>2, CallMoves
    <2>5. CASE ~Case1(c)
        <3> DEFINE x == [Remembered(c) EXCEPT !.maj = new]
        <3>1. call' = [call EXCEPT ![c] = x]
            BY <1>4, <2>5 DEF Grow
        <3> HIDE DEF new
        <3>2. /\ x \in CallType /\ x.at = "loop" /\ x.maj = new /\ x.m = call[c].m
              /\ x.old = call[c].old /\ x.then = call[c].then /\ x.req_size = n
            BY <1>1, <1>2, <2>2 DEF CallType, Points
        <3> HIDE DEF x, n
        <3>3. x.m # 0 => x.m \in Majors' /\ majors'[x.m].first
            <4>1. x.m # 0 => InUse(x.m)
                BY <1>2, <3>2 DEF CallOK
            <4> QED
                BY <2>2, <4>1, StillInUse DEF InUse
        <3> QED
            BY <1>2, <2>1, <2>2, <2>3, <3>1, <3>2, <3>3, CallMoves
    <2> QED
        BY <2>4, <2>5
<1> QED
    BY <1>3, <1>4

LEMMA TakeInv ==
    ASSUME Inv, NEW c \in Callers, Take(c)
    PROVE  Inv'
<1> DEFINE n == call[c].req_size
           k == call[c].maj
           x == [Remembered(c) EXCEPT !.at = "unlock", !.m = k]
<1>1. PICK b \in Nat : Remembered(c) = [call[c] EXCEPT !.bestSize = b]
    BY LoopFacts DEF Take
<1>2. /\ call[c] \in CallType /\ call[c].at = "loop"
      /\ k \in Majors /\ k \in Nat /\ n \in Requests /\ l_bestBet' \in Indices
      /\ LibAllocLock' \in BOOLEAN /\ held' = held /\ MajorsInv
      /\ call' = [call EXCEPT ![c] = x]
    BY LoopFacts DEF Take, Inv, CallsInv, Majors
<1>3. /\ MajorsInv' /\ Len(majors') = Len(majors) /\ Len(majors) \in Nat
      /\ majors'[k].first /\ \A i \in Majors \ {k} : majors'[i] = majors[i]
    BY <1>2, TakeStep DEF MajorsInv
<1>4. NoneLost /\ Majors' = Majors
    BY <1>3 DEF NoneLost, Majors
<1>5. /\ x \in CallType /\ x.at = "unlock" /\ x.maj = k /\ x.m = k
      /\ x.old = call[c].old /\ x.then = call[c].then /\ x.req_size = n
    BY <1>1, <1>2 DEF CallType, Points
<1> HIDE DEF x, k, n
<1> QED
    BY <1>2, <1>3, <1>4, <1>5, CallMoves

LEMMA CutInv ==
    ASSUME Inv, NEW c \in Callers, Cut(c)
    PROVE  Inv'
<1> DEFINE n == call[c].req_size
           k == call[c].old
           x == [call[c] EXCEPT !.at = "unlock", !.m = k]
<1>1. /\ call[c] \in CallType /\ CallOK(call[c]) /\ call[c].at = "check"
      /\ MajorsInv /\ l_bestBet \in Indices /\ LibAllocLock \in BOOLEAN
    BY DEF Cut, Inv, CallsInv
<1>2. InUse(k) /\ k \in Majors /\ n \in Requests /\ call[c].maj \in Indices
    BY <1>1 DEF CallOK, InUse
<1>3. /\ MajorsInv' /\ Len(majors') = Len(majors) /\ Len(majors) \in Nat
      /\ majors'[k].first /\ \A i \in Majors \ {k} : majors'[i] = majors[i]
    BY <1>1, <1>2, CutStep DEF MajorsInv
<1>4. NoneLost /\ Majors' = Majors
    BY <1>3 DEF NoneLost, Majors
<1>5. /\ call' = [call EXCEPT ![c] = x] /\ held' = held
      /\ l_bestBet' \in Indices /\ LibAllocLock' \in BOOLEAN
    BY <1>1 DEF Cut
<1>6. /\ x \in CallType /\ x.at = "unlock" /\ x.m = k /\ x.maj = call[c].maj
      /\ x.old = call[c].old /\ x.then = call[c].then /\ x.req_size = n
    BY <1>1, <1>2 DEF CallType, Points
<1> HIDE DEF x, k, n
<1> QED
    BY <1>1, <1>2, <1>3, <1>4, <1>5, <1>6, CallMoves

LEMMA UnlockInv ==
    ASSUME Inv, NEW c \in Callers, Unlock(c)
    PROVE  Inv'
<1>1. /\ CallsInv /\ MajorsInv /\ CallOK(call[c]) /\ HeldInUse(c)
      /\ Indices \subseteq Nat /\ 0 \in Indices
    BY DEF Inv, CallsInv, MajorsInv, Indices
<1>2. /\ UNCHANGED <<offset, brk, majors, l_memRoot, l_bestBet>>
      /\ LibAllocLock' \in BOOLEAN
      /\ call' = [call EXCEPT ![c] = NoCall]
    BY DEF Unlock
<1>3. MajorsInv' /\ NoneLost
    BY <1>1, <1>2, MajorsUnchanged DEF NoneLost, MajorsInv
<1>4. /\ NoCall \in CallType
      /\ call' \in [Callers -> CallType] /\ call'[c] = NoCall
      /\ \A d \in Callers \ {c} : call'[d] = call[d]
    <2>1. NoCall \in CallType
        BY DEF NoCall, CallType, Points
    <2> QED
        BY <1>1, <1>2, <2>1 DEF CallsInv
<1>5. CallOK(call[c])'
    <2>1. 0 \in Indices'
        BY <1>1, <1>2 DEF Indices
    <2> QED
        BY <1>4, <2>1 DEF CallOK, NoCall
<1>6. /\ held' \in [Callers -> SUBSET Nat] /\ HeldInUse(c)'
      /\ \A d \in Callers \ {c} : held'[d] = held[d]
    <2>1. CASE call[c].m = 0
        <3>1. held' = held
            BY <2>1 DEF Unlock
        <3> QED
            BY <1>1, <1>3, <3>1, StillInUse DEF HeldInUse, CallsInv
    <2>2. CASE call[c].m # 0
        <3> DEFINE mine == (held[c] \ {call[c].old}) \cup {call[c].m}
        <3>1. held' = [held EXCEPT ![c] = mine]
            BY <2>2 DEF Unlock
        <3>2. InUse(call[c].m) /\ call[c].m \in Nat
            BY <1>1, <2>2 DEF CallOK
        <3>3. mine \in SUBSET Nat /\ \A m \in mine : InUse(m)
            BY <1>1, <3>2 DEF HeldInUse, CallsInv
        <3> HIDE DEF mine
        <3>4. /\ held' \in [Callers -> SUBSET Nat] /\ held'[c] = mine
              /\ \A d \in Callers \ {c} : held'[d] = held[d]
            BY <1>1, <3>1, <3>3 DEF CallsInv
        <3>5. HeldInUse(c)'
            BY <1>3, <3>3, <3>4, StillInUse DEF HeldInUse
        <3> QED
            BY <3>4, <3>5
    <2> QED
        BY <2>1, <2>2
<1>7. l_bestBet' \in Indices'
    BY <1>1, <1>2 DEF CallsInv, Indices
<1>8. CallsInv'
    BY <1>1, <1>2, <1>3, <1>4, <1>5, <1>6, <1>7, OtherCalls
<1> QED
    BY <1>3, <1>8 DEF Inv

LEMMA StepInv ==
    ASSUME Inv, NEW c \in Callers, Step(c)
    PROVE  Inv'
<1>1. CASE TestLock(c)
    BY <1>1, LockSteps
<1>2. CASE TakeLock(c)
    BY <1>2, LockSteps
<1>3. CASE Root(c)
    BY <1>3, RootInv
<1>4. CASE Hop(c)
    BY <1>4, SearchSteps
<1>5. CASE Restart(c)
    BY <1>5, SearchSteps
<1>6. CASE Grow(c)
    BY <1>6, GrowInv
<1>7. CASE Take(c)
    BY <1>7, TakeInv
<1>8. CASE Unlock(c)
    BY <1>8, UnlockInv
<1>9. CASE Reject(c)
    BY <1>9, SearchSteps
<1>10. CASE Cut(c)
    BY <1>10, CutInv
<1>11. CASE Regrow(c)
    BY <1>11, SearchSteps
<1> QED
    BY <1>1, <1>2, <1>3, <1>4, <1>5, <1>6, <1>7, <1>8, <1>9, <1>10, <1>11 DEF Step

LEMMA NextInv == Inv /\ [Next]_vars => Inv'
<1> SUFFICES ASSUME Inv, [Next]_vars
             PROVE  Inv'
    OBVIOUS
<1>1. CASE Next
    <2>1. PICK c \in Callers :
              \/ \E n \in Requests : Malloc(c, n)
              \/ \E m \in held[c], n \in Requests \ {0} : Realloc(c, m, n)
              \/ Step(c)
        BY <1>1 DEF Next
    <2>2. CASE Step(c)
        BY <2>2, StepInv
    <2> QED
        BY <2>1, <2>2, LockSteps
<1>2. CASE UNCHANGED vars
    <2>1. MajorsInv'
        BY <1>2, MajorsUnchanged DEF Inv, vars
    <2>2. CallsInv'
        BY <1>2 DEF Inv, vars, CallsInv, CallOK, HeldInUse, InUse, Indices, Majors
    <2> QED
        BY <2>1, <2>2 DEF Inv
<1> QED
    BY <1>1, <1>2

LEMMA Invariance == Spec => []Inv
<1> QED
    BY InitInv, NextInv, PTL DEF Spec

------------------------------------------------------------------------------
(* Safety *)

LEMMA InvType == Inv => TypeOK
<1> SUFFICES ASSUME Inv PROVE TypeOK
    OBVIOUS
<1>1. /\ offset \in 0..(l_pageSize - 1) /\ brk \in 0..HeapPages
      /\ majors \in Seq(MajorType) /\ Len(majors) \in Nat
    BY DEF Inv, MajorsInv
<1>2. l_memRoot \in Indices /\ l_bestBet \in Indices /\ LibAllocLock \in BOOLEAN
    <2>1. l_memRoot \in Indices
        <3>1. CASE majors = << >>
            BY <1>1, <3>1 DEF Inv, MajorsInv, Chain, Indices
        <3>2. CASE majors # << >>
            BY <1>1, <3>2 DEF Inv, MajorsInv, Chain, Indices
        <3> QED
            BY <3>1, <3>2
    <2> QED
        BY <2>1 DEF Inv, CallsInv
<1>3. call \in [Callers -> [at : Points, then : {"root", "check"},
                             req_size : Requests \cup {0}, maj : Indices,
                             startedBet : BOOLEAN, bestSize : Nat,
                             m : Indices, old : Indices]]
    <2>1. call \in [Callers -> CallType]
        BY DEF Inv, CallsInv
    <2>2. ASSUME NEW c \in Callers
          PROVE  call[c] \in [at : Points, then : {"root", "check"},
                              req_size : Requests \cup {0}, maj : Indices,
                              startedBet : BOOLEAN, bestSize : Nat,
                              m : Indices, old : Indices]
        <3>1. /\ call[c] \in CallType /\ call[c].maj \in Indices
              /\ call[c].m \in Indices /\ call[c].old \in Indices
            BY DEF Inv, CallsInv, CallOK
        <3> QED
            BY <3>1 DEF CallType
    <2> QED
        BY <2>1, <2>2
<1>4. held \in [Callers -> SUBSET (1..Len(majors))]
    <2>1. ASSUME NEW c \in Callers
          PROVE  held[c] \in SUBSET (1..Len(majors))
        BY DEF Inv, CallsInv, HeldInUse, InUse, Majors
    <2> QED
        BY <2>1 DEF Inv, CallsInv
<1> QED
    BY <1>1, <1>2, <1>3, <1>4 DEF TypeOK, MajorType

\* The heap's variables keep their types: every call is in a major that
\* exists, and every index is that of a major.
THEOREM TypeCorrect == Spec => []TypeOK
<1> QED
    BY Invariance, InvType, PTL

\* BlockInItsMajor for every alignment, header size and page offset: a block
\* malloc (LibAlloc.c) returns lies behind its headers and inside its major.
THEOREM BlocksInside == Spec => []BlockInItsMajor
<1>1. Inv => BlockInItsMajor
    BY DEF Inv, MajorsInv, BlockInItsMajor, BlockInside
<1> QED
    BY <1>1, Invariance, PTL

\* UsageAccounted: size - usage, by which malloc (LibAlloc.c) chooses a major,
\* never wraps.
THEOREM UsageExact == Spec => []UsageAccounted
<1>1. Inv => UsageAccounted
    BY DEF Inv, MajorsInv, UsageAccounted, Accounted
<1> QED
    BY <1>1, Invariance, PTL

------------------------------------------------------------------------------
(* Allocator *)

BlockOf(major) == [p |-> major.minor.p, size |-> major.minor.req_size]

LEMMA ExtentBounded ==
    ASSUME NEW page \in 0..(l_pageSize - 1), NEW pages \in 0..HeapPages
    PROVE  /\ page + pages * l_pageSize \in Nat
           /\ (HeapPages + 1) * l_pageSize \in Nat
           /\ page + pages * l_pageSize <= (HeapPages + 1) * l_pageSize
<1> USE ConstantsAssumption
<1> DEFINE used == pages * l_pageSize
           all  == HeapPages * l_pageSize
           more == (HeapPages + 1) * l_pageSize
<1>1. /\ used \in Nat /\ all \in Nat /\ used <= all
      /\ more = all + 1 * l_pageSize
    BY Distribute
<1>2. 1 * l_pageSize = l_pageSize
    OBVIOUS
<1> HIDE DEF used, all, more
<1>3. page + used \in Nat /\ more \in Nat /\ page + used <= more
    BY <1>1, <1>2
<1> QED
    BY <1>3 DEF used, more

\* A block in use starts behind its major's first byte, at an aligned address.
LEMMA BlockPlace ==
    ASSUME NEW major \in MajorType, BlockInside(major), major.first
    PROVE  /\ major.base \in Nat /\ EndOf(major) \in Nat
           /\ BlockOf(major).p \in Nat /\ BlockOf(major).size \in Nat
           /\ BlockOf(major).p % ALIGNMENT = 0
           /\ major.base < BlockOf(major).p
           /\ BlockOf(major).p + BlockOf(major).size <= EndOf(major)
<1> USE ConstantsAssumption
<1> DEFINE b == major.minor
<1>1. /\ major.base \in Nat /\ major.size \in Nat
      /\ b.p \in Nat /\ b.req_size \in Nat /\ EndOf(major) \in Nat
    BY MajorFields DEF Minors
<1>2. /\ b.p % ALIGNMENT = 0 /\ MinorEnd(major) + ALIGN_INFO <= b.p
      /\ b.p + b.req_size <= EndOf(major)
    BY DEF BlockInside, EndOf
<1>3. major.base < b.p
    BY <1>1, <1>2 DEF MinorEnd
<1>4. BlockOf(major).p = b.p /\ BlockOf(major).size = b.req_size
    BY DEF BlockOf
<1> HIDE DEF b
<1> QED
    BY <1>1, <1>2, <1>3, <1>4

LEMMA BlocksApart ==
    ASSUME NEW one \in MajorType, BlockInside(one), one.first,
           NEW other \in MajorType, BlockInside(other), other.first,
           EndOf(one) <= other.base
    PROVE  /\ BlockOf(one).p # BlockOf(other).p
           /\ Promise!Apart(BlockOf(one), BlockOf(other))
           /\ Promise!Apart(BlockOf(other), BlockOf(one))
<1> DEFINE a == BlockOf(one)
           b == BlockOf(other)
<1>1. /\ a.p \in Nat /\ a.size \in Nat /\ a.p + a.size <= EndOf(one)
      /\ EndOf(one) \in Nat
    BY BlockPlace
<1>2. /\ b.p \in Nat /\ other.base < b.p /\ other.base \in Nat
    BY BlockPlace
<1> HIDE DEF a, b
<1>3. a.p # b.p /\ a.p + a.size <= b.p
    BY <1>1, <1>2
<1> QED
    BY <1>3 DEF Promise!Apart, a, b

LEMMA SameBlocks ==
    ASSUME Majors \subseteq Majors',
           \A i \in Majors : /\ majors'[i].first <=> majors[i].first
                             /\ majors[i].first =>
                                    BlockOf(majors'[i]) = BlockOf(majors[i]),
           \A i \in Majors' \ Majors : ~majors'[i].first
    PROVE  Blocks' = Blocks
<1>1. Blocks = { BlockOf(majors[i]) : i \in { j \in Majors : majors[j].first } }
    BY DEF Blocks, BlockOf
<1>2. Blocks' = { BlockOf(majors'[i]) : i \in { j \in Majors' : majors'[j].first } }
    BY DEF Blocks, BlockOf
<1>3. ASSUME NEW b \in Blocks PROVE b \in Blocks'
    <2>1. PICK i \in Majors : majors[i].first /\ b = BlockOf(majors[i])
        BY <1>1
    <2> QED
        BY <1>2, <2>1
<1>4. ASSUME NEW b \in Blocks' PROVE b \in Blocks
    <2>1. PICK i \in Majors' : majors'[i].first /\ b = BlockOf(majors'[i])
        BY <1>2
    <2> QED
        BY <1>1, <2>1
<1> QED
    BY <1>3, <1>4

\* A major that comes into use.
LEMMA NewBlock ==
    ASSUME MajorsInv, MajorsInv', NEW k \in Majors',
           majors'[k].first, majors'[k].minor.req_size \in Requests,
           k \in Majors => ~majors[k].first,
           Majors \subseteq Majors', Majors' \subseteq Majors \cup {k},
           \A i \in Majors \ {k} : /\ majors'[i].first <=> majors[i].first
                                   /\ BlockOf(majors'[i]) = BlockOf(majors[i])
    PROVE  Promise!Allocate
<1> DEFINE new == BlockOf(majors'[k])
<1>1. Blocks = { BlockOf(majors[i]) : i \in { j \in Majors : majors[j].first } }
    BY DEF Blocks, BlockOf
<1>2. Blocks' = { BlockOf(majors'[i]) : i \in { j \in Majors' : majors'[j].first } }
    BY DEF Blocks, BlockOf
<1>3. ASSUME NEW i \in Majors'
      PROVE  /\ majors'[i] \in MajorType /\ BlockInside(majors'[i])
             /\ EndOf(majors'[i]) <= Extent'
    BY DEF MajorsInv, Layout, Majors
<1>4. /\ new.p \in 0..((HeapPages + 1) * l_pageSize) /\ new.p % ALIGNMENT = 0
      /\ new.size \in Requests
    <2> DEFINE more == (HeapPages + 1) * l_pageSize
    <2>1. /\ EndOf(majors'[k]) \in Nat /\ EndOf(majors'[k]) <= Extent'
          /\ new.p \in Nat /\ new.size \in Nat /\ new.p % ALIGNMENT = 0
          /\ new.p + new.size <= EndOf(majors'[k])
        BY <1>3, BlockPlace
    <2>2. Extent' \in Nat /\ more \in Nat /\ Extent' <= more
        BY ExtentBounded DEF MajorsInv, Extent
    <2>3. new.size \in Requests
        BY DEF BlockOf
    <2> HIDE DEF new, more
    <2>4. new.p \in 0..more
        BY <2>1, <2>2
    <2> QED
        BY <2>1, <2>3, <2>4 DEF more
<1>5. ASSUME NEW b \in Blocks
      PROVE  b.p # new.p /\ Promise!Apart(new, b)
    <2>1. PICK i \in Majors : majors[i].first /\ b = BlockOf(majors[i])
        BY <1>1
    <2>2. i # k /\ i \in Majors' /\ majors'[i].first /\ b = BlockOf(majors'[i])
        BY <2>1
    <2>3. i < k \/ k < i
        BY <2>2 DEF Majors
    <2>4. EndOf(majors'[i]) <= majors'[k].base \/ EndOf(majors'[k]) <= majors'[i].base
        BY <2>2, <2>3 DEF MajorsInv, Layout
    <2> QED
        BY <1>3, <2>2, <2>4, BlocksApart
<1>6. Blocks' = Blocks \cup {new}
    <2>1. ASSUME NEW b \in Blocks' PROVE b \in Blocks \cup {new}
        <3>1. PICK i \in Majors' : majors'[i].first /\ b = BlockOf(majors'[i])
            BY <1>2
        <3> QED
            BY <1>1, <3>1
    <2>2. ASSUME NEW b \in Blocks PROVE b \in Blocks'
        <3>1. PICK i \in Majors : majors[i].first /\ b = BlockOf(majors[i])
            BY <1>1
        <3> QED
            BY <1>2, <3>1
    <2>3. new \in Blocks'
        BY <1>2
    <2> QED
        BY <2>1, <2>2, <2>3
<1>7. new = [p |-> new.p, size |-> new.size]
    BY DEF BlockOf
<1> HIDE DEF new
<1> QED
    BY <1>4, <1>5, <1>6, <1>7 DEF Promise!Allocate, Promise!Apart

\* A block cut in place.
LEMMA CutBlock ==
    ASSUME MajorsInv, NEW k \in Majors, Majors' = Majors,
           majors[k].first, majors'[k].first,
           majors'[k].minor.p = majors[k].minor.p,
           majors'[k].minor.req_size \in Requests,
           majors'[k].minor.req_size <= majors[k].minor.req_size,
           \A i \in Majors \ {k} : majors'[i] = majors[i]
    PROVE  [Promise!Next]_Blocks
<1> DEFINE n   == majors'[k].minor.req_size
           old == BlockOf(majors[k])
           new == BlockOf(majors'[k])
<1>1. Blocks = { BlockOf(majors[i]) : i \in { j \in Majors : majors[j].first } }
    BY DEF Blocks, BlockOf
<1>2. Blocks' = { BlockOf(majors'[i]) : i \in { j \in Majors' : majors'[j].first } }
    BY DEF Blocks, BlockOf
<1>3. new = [old EXCEPT !.size = n] /\ old.size = majors[k].minor.req_size
    BY DEF BlockOf
<1>4. ASSUME NEW i \in Majors
      PROVE  /\ majors[i] \in MajorType /\ BlockInside(majors[i])
    BY DEF MajorsInv, Majors
<1>5. old.size \in Nat /\ n \in Nat
    BY <1>4, BlockPlace, ConstantsAssumption
<1>6. CASE n = old.size
    <2>1. new = old
        BY <1>3, <1>6 DEF BlockOf
    <2>2. Blocks' = Blocks
        <3>1. \A i \in Majors : /\ majors'[i].first <=> majors[i].first
                                /\ BlockOf(majors'[i]) = BlockOf(majors[i])
            BY <2>1
        <3> QED
            BY <3>1, SameBlocks
    <2> QED
        BY <2>2
<1>7. CASE n < old.size
    <2>1. old \in Blocks
        BY <1>1
    <2>2. ASSUME NEW i \in Majors, i # k, majors[i].first
          PROVE  BlockOf(majors[i]) # old
        <3>1. i < k \/ k < i
            BY <2>2 DEF Majors
        <3>2. EndOf(majors[i]) <= majors[k].base \/ EndOf(majors[k]) <= majors[i].base
            BY <3>1 DEF MajorsInv, Layout
        <3> QED
            BY <1>4, <2>2, <3>2, BlocksApart
    <2>3. Blocks' = (Blocks \ {old}) \cup {new}
        <3>1. ASSUME NEW b \in Blocks' PROVE b \in (Blocks \ {old}) \cup {new}
            <4>1. PICK i \in Majors : majors'[i].first /\ b = BlockOf(majors'[i])
                BY <1>2
            <4>2. CASE i # k
                <5>1. majors[i].first /\ b = BlockOf(majors[i])
                    BY <4>1, <4>2
                <5> QED
                    BY <1>1, <2>2, <4>2, <5>1
            <4> QED
                BY <4>1, <4>2
        <3>2. ASSUME NEW b \in Blocks, b # old PROVE b \in Blocks'
            <4>1. PICK i \in Majors : majors[i].first /\ b = BlockOf(majors[i])
                BY <1>1
            <4>2. i # k
                BY <3>2, <4>1
            <4> QED
                BY <1>2, <4>1, <4>2
        <3>3. new \in Blocks'
            BY <1>2
        <3> QED
            BY <3>1, <3>2, <3>3
    <2> HIDE DEF old, new, n
    <2>4. n \in Requests
        BY DEF n
    <2> QED
        BY <1>3, <1>7, <2>1, <2>3, <2>4 DEF Promise!Next, Promise!Shrink
<1>8. n <= old.size
    BY <1>3
<1> QED
    BY <1>5, <1>6, <1>7, <1>8

LEMMA Simulation ==
    ASSUME Inv, [Next]_vars
    PROVE  [Promise!Next]_Blocks
<1>1. ASSUME UNCHANGED majors
      PROVE  Blocks' = Blocks
    BY <1>1 DEF Blocks, Majors
<1>2. MajorsInv /\ Len(majors) \in Nat /\ \A i \in Majors : majors[i] \in MajorType
    BY DEF Inv, MajorsInv, Majors
<1>3. ASSUME NEW c \in Callers, Root(c)
      PROVE  Blocks' = Blocks
    <2>1. CASE UNCHANGED majors
        BY <1>1, <2>1
    <2>2. CASE ~UNCHANGED majors
        <3>1. l_memRoot = 0 /\ Available(call[c].req_size)
            BY <1>3, <2>2 DEF Root
        <3>2. call[c].req_size \in Requests
            BY <1>3 DEF Inv, CallsInv, CallOK, Root
        <3>3. majors = << >> /\ Len(majors') = 1 /\ ~majors'[1].first
            BY <1>2, <1>3, <3>1, <3>2, RootStep
        <3>4. Majors = {} /\ Majors' = {1}
            BY <3>3 DEF Majors
        <3> QED
            BY <3>3, <3>4, SameBlocks
    <2> QED
        BY <2>1, <2>2
<1>4. ASSUME NEW c \in Callers, Grow(c)
      PROVE  [Promise!Next]_Blocks
    <2> DEFINE n   == call[c].req_size
               new == Len(majors) + 1
    <2>1. CASE ~Available(n)
        BY <1>1, <1>4, <2>1 DEF Grow
    <2>2. CASE Available(n)
        <3>1. call[c].maj \in Majors /\ n \in Requests
            BY <1>4, LoopFacts DEF Grow
        <3>2. /\ MajorsInv' /\ Len(majors') = new
              /\ \A i \in Majors : /\ majors'[i].first = majors[i].first
                                   /\ majors'[i].minor = majors[i].minor
              /\ majors'[new] = Grown(c) /\ (Grown(c).first <=> Case1(c))
              /\ Case1(c) => Grown(c).minor.req_size = n
            BY <1>2, <1>4, <2>2, <3>1, GrowStep
        <3>3. /\ Majors' = Majors \cup {new} /\ new \notin Majors
            BY <1>2, <3>2 DEF Majors
        <3>4. \A i \in Majors : /\ majors'[i].first <=> majors[i].first
                                /\ BlockOf(majors'[i]) = BlockOf(majors[i])
            BY <3>2 DEF BlockOf
        <3> HIDE DEF n, new
        <3>5. CASE Case1(c)
            <4>1. Promise!Allocate
                BY <1>2, <3>1, <3>2, <3>3, <3>4, <3>5, NewBlock
            <4> QED
                BY <4>1 DEF Promise!Next
        <3>6. CASE ~Case1(c)
            <4>1. Blocks' = Blocks
                BY <3>2, <3>3, <3>4, <3>6, SameBlocks
            <4> QED
                BY <4>1
        <3> QED
            BY <3>5, <3>6
    <2> QED
        BY <2>1, <2>2
<1>5. ASSUME NEW c \in Callers, Take(c)
      PROVE  [Promise!Next]_Blocks
    <2> DEFINE k == call[c].maj
    <2>1. k \in Majors /\ call[c].req_size \in Requests
        BY <1>5, LoopFacts DEF Take
    <2>2. /\ MajorsInv' /\ Len(majors') = Len(majors)
          /\ ~majors[k].first /\ majors'[k].first
          /\ majors'[k].minor.req_size = call[c].req_size
          /\ \A i \in Majors \ {k} : majors'[i] = majors[i]
        BY <1>2, <1>5, <2>1, TakeStep
    <2>3. Majors' = Majors
        BY <2>2 DEF Majors
    <2> HIDE DEF k
    <2>4. Promise!Allocate
        BY <1>2, <2>1, <2>2, <2>3, NewBlock
    <2> QED
        BY <2>4 DEF Promise!Next
<1>6. ASSUME NEW c \in Callers, Cut(c)
      PROVE  [Promise!Next]_Blocks
    <2> DEFINE k == call[c].old
    <2>1. InUse(k) /\ call[c].req_size \in Requests
        BY <1>6 DEF Cut, Inv, CallsInv, CallOK
    <2>2. /\ Len(majors') = Len(majors)
          /\ majors'[k].first /\ majors'[k].minor.p = majors[k].minor.p
          /\ majors'[k].minor.req_size = call[c].req_size
          /\ call[c].req_size <= majors[k].minor.req_size
          /\ \A i \in Majors \ {k} : majors'[i] = majors[i]
        BY <1>2, <1>6, <2>1, CutStep
    <2>3. Majors' = Majors
        BY <2>2 DEF Majors
    <2> HIDE DEF k
    <2> QED
        BY <1>2, <2>1, <2>2, <2>3, CutBlock DEF InUse
<1>7. CASE Next
    <2>1. PICK c \in Callers :
              \/ \E n \in Requests : Malloc(c, n)
              \/ \E m \in held[c], n \in Requests \ {0} : Realloc(c, m, n)
              \/ Step(c)
        BY <1>7 DEF Next
    <2>2. \/ UNCHANGED majors \/ Root(c) \/ Grow(c) \/ Take(c) \/ Cut(c)
        BY <2>1 DEF Malloc, Realloc, Step, TestLock, TakeLock, Hop, Restart,
                    Unlock, Reject, Regrow
    <2> QED
        BY <1>1, <1>3, <1>4, <1>5, <1>6, <2>2
<1>8. CASE UNCHANGED vars
    BY <1>1, <1>8 DEF vars
<1> QED
    BY <1>7, <1>8

LEMMA InitPromise == Init => Promise!Init
<1> SUFFICES ASSUME Init PROVE Blocks = {}
    BY DEF Promise!Init
<1>1. Majors = {}
    BY DEF Init, Majors
<1> QED
    BY <1>1 DEF Blocks

\* ImplementsAllocator for one caller and every size: malloc and realloc
\* (LibAlloc.c) give out aligned blocks that no other block overlaps.  The
\* steps are as large as a turn of malloc's loop; two callers whose turns mix,
\* which the lock does not prevent, are outside the theorem.
THEOREM Implements ==
    ASSUME SingleCaller
    PROVE  Spec => ImplementsAllocator
<1> QED
    BY Invariance, Simulation, InitPromise, PTL
    DEF Spec, ImplementsAllocator, Promise!Spec

------------------------------------------------------------------------------
(* One caller at a time *)

\* Only a search that has just reached a new major leaves one empty.
LEMMA UsedElsewhere ==
    ASSUME Inv, UsedInv, NEW c \in Callers,
           \/ call[c].at # "loop"
           \/ ~Case2(c)
    PROVE  AllUsed
<1> SUFFICES ASSUME NEW i \in Majors, ~majors[i].first
             PROVE  FALSE
    BY DEF AllUsed
<1>1. /\ call[c].at = "loop" /\ call[c].maj = i
      /\ Free(i) >= Need(call[c].req_size)
    BY DEF UsedInv
<1>2. Free(i) \in Nat /\ Need(call[c].req_size) \in Nat
    BY <1>1, FreeNat, LoopFacts, PagesSuffice
<1>3. Case2(c)
    BY <1>1, <1>2 DEF Case2, Case1
<1> QED
    BY <1>1, <1>3

LEMMA UsedKept ==
    ASSUME NEW c \in Callers, Callers = {c}, AllUsed',
           LibAllocLock' <=> call'[c].at \in Locked
    PROVE  UsedInv'
<1> QED
    BY DEF UsedInv, AllUsed

LEMMA UsedInit == Init => UsedInv
<1> SUFFICES ASSUME Init, NEW c \in Callers
             PROVE  /\ LibAllocLock <=> call[c].at \in Locked
                    /\ Majors = {}
    BY DEF UsedInv
<1>1. call[c].at = "idle" /\ LibAllocLock = FALSE
    BY DEF Init, NoCall
<1> QED
    BY <1>1 DEF Init, Locked, Majors

\* The steps after which every major is in use, as before them.
LEMMA UsedByQuiet ==
    ASSUME Inv, UsedInv, NEW c \in Callers, Callers = {c},
           \/ \E n \in Requests : Malloc(c, n)
           \/ \E m \in held[c], n \in Requests \ {0} : Realloc(c, m, n)
           \/ TestLock(c) \/ TakeLock(c) \/ Unlock(c) \/ Reject(c) \/ Regrow(c)
           \/ Hop(c) \/ Restart(c)
    PROVE  UsedInv'
<1>1. call \in [Callers -> CallType] /\ call[c] \in CallType
      /\ (LibAllocLock <=> call[c].at \in Locked)
    BY DEF Inv, CallsInv, UsedInv
<1>2. AllUsed /\ UNCHANGED majors
    <2>1. call[c].at # "loop" \/ ~Case2(c)
        BY DEF Malloc, Realloc, TestLock, TakeLock, Unlock, Reject, Regrow,
               Hop, Restart
    <2>2. AllUsed
        BY <2>1, UsedElsewhere
    <2> QED
        BY <2>2 DEF Malloc, Realloc, TestLock, TakeLock, Unlock, Reject, Regrow,
                    Hop, Restart
<1>3. AllUsed'
    BY <1>2 DEF AllUsed, Majors
<1>4. LibAllocLock' <=> call'[c].at \in Locked
    <2>1. CASE (\E n \in Requests : Malloc(c, n))
               \/ (\E m \in held[c], n \in Requests \ {0} : Realloc(c, m, n))
        <3>1. call[c].at = "idle" /\ LibAllocLock' = LibAllocLock
            BY <2>1 DEF Malloc, Realloc
        <3>2. call'[c].at = "lock"
            BY <1>1, <2>1 DEF Malloc, Realloc, NoCall
        <3> QED
            BY <1>1, <3>1, <3>2 DEF Locked
    <2>2. CASE TestLock(c)
        BY <1>1, <2>2 DEF TestLock, Goto, CallType, Locked
    <2>3. CASE TakeLock(c)
        <3>1. call[c].then \in Locked
            BY <1>1 DEF CallType, Locked
        <3>2. LibAllocLock' = TRUE /\ call'[c].at = call[c].then
            BY <1>1, <2>3 DEF TakeLock, Goto, CallType
        <3> QED
            BY <3>1, <3>2
    <2>4. CASE Unlock(c)
        <3>1. LibAllocLock' = FALSE /\ call'[c] = NoCall
            BY <1>1, <2>4 DEF Unlock
        <3> QED
            BY <3>1 DEF NoCall, Locked
    <2>5. CASE Reject(c)
        BY <1>1, <2>5 DEF Reject, Goto, CallType, Locked
    <2>6. CASE Regrow(c)
        <3>1. LibAllocLock' = FALSE /\ call'[c].at = "lock"
            BY <1>1, <2>6 DEF Regrow, CallType
        <3> QED
            BY <3>1 DEF Locked
    <2>7. CASE Hop(c) \/ Restart(c)
        <3>1. call[c].at = "loop" /\ LibAllocLock' = LibAllocLock
            BY <2>7 DEF Hop, Restart
        <3>2. PICK b \in Nat : Remembered(c) = [call[c] EXCEPT !.bestSize = b]
            BY <3>1, LoopFacts
        <3> DEFINE seen == Remembered(c)
                   hop  == [seen EXCEPT !.maj = majors[@].next]
                   back == [seen EXCEPT !.maj = l_memRoot, !.startedBet = FALSE]
        <3>4. hop.at = "loop" /\ back.at = "loop"
            BY <1>1, <3>1, <3>2 DEF CallType
        <3>5. CASE Hop(c)
            <4>1. call' = [call EXCEPT ![c] = hop]
                BY <3>5 DEF Hop
            <4> HIDE DEF hop
            <4> QED
                BY <1>1, <3>1, <3>4, <4>1 DEF Locked
        <3>6. CASE Restart(c)
            <4>1. call' = [call EXCEPT ![c] = back]
                BY <3>6 DEF Restart
            <4> HIDE DEF back
            <4> QED
                BY <1>1, <3>1, <3>4, <4>1 DEF Locked
        <3> QED
            BY <2>7, <3>5, <3>6
    <2> QED
        BY <2>1, <2>2, <2>3, <2>4, <2>5, <2>6, <2>7
<1> QED
    BY <1>3, <1>4, UsedKept

\* The search from the root, which may be new and empty.
LEMMA UsedByRoot ==
    ASSUME Inv, UsedInv, NEW c \in Callers, Callers = {c}, Root(c)
    PROVE  UsedInv'
<1> DEFINE n == call[c].req_size
<1>1. /\ call \in [Callers -> CallType] /\ call[c].at = "root" /\ n \in Requests
      /\ MajorsInv /\ l_bestBet \in Indices /\ LibAllocLock /\ LibAllocLock'
    BY DEF Inv, CallsInv, CallOK, Root, UsedInv, Locked
<1>2. AllUsed
    BY <1>1, UsedElsewhere
<1>3. CASE l_memRoot = 0 /\ ~Available(n)
    <2>1. call'[c].at = "panic" /\ UNCHANGED majors
        BY <1>1, <1>3 DEF Root, Goto, CallType
    <2>2. AllUsed'
        BY <1>2, <2>1 DEF AllUsed, Majors
    <2> QED
        BY <1>1, <2>1, <2>2, UsedKept DEF Locked
<1>4. CASE ~(l_memRoot = 0 /\ ~Available(n))
    <2> DEFINE fits == l_bestBet # 0 /\ Free(l_bestBet) > Need(n)
    <2>1. /\ call'[c].at = "loop" /\ call'[c].req_size = n
          /\ call'[c].maj = IF fits THEN l_bestBet ELSE l_memRoot'
        <3> DEFINE maj  == IF fits THEN l_bestBet ELSE l_memRoot'
                   size == IF l_bestBet = 0 THEN 0 ELSE Free(l_bestBet)
                   x    == [call[c] EXCEPT !.at = "loop", !.maj = maj,
                                           !.startedBet = fits, !.bestSize = size]
        <3>1. call' = [call EXCEPT ![c] = x]
            BY <1>4 DEF Root
        <3>2. call[c] \in CallType
            BY <1>1
        <3> HIDE DEF fits, maj, size
        <3>3. x.at = "loop" /\ x.req_size = n /\ x.maj = maj
            BY <3>2 DEF CallType
        <3> HIDE DEF x
        <3>4. call'[c] = x
            BY <1>1, <3>1
        <3> QED
            BY <3>3, <3>4 DEF maj
    <2>2. CASE l_memRoot # 0
        <3>1. UNCHANGED majors
            BY <1>4, <2>2 DEF Root
        <3>2. AllUsed'
            BY <1>2, <3>1 DEF AllUsed, Majors
        <3> QED
            BY <1>1, <2>1, <3>2, UsedKept DEF Locked
    <2>3. CASE l_memRoot = 0
        <3>1. /\ majors = << >> /\ Len(majors') = 1
              /\ majors'[1].size - majors'[1].usage >= Need(n)
            BY <1>1, <1>4, <2>3, RootStep
        <3>2. l_bestBet = 0 /\ l_memRoot' = 1
            <4>1. Len(majors) = 0
                BY <3>1
            <4> QED
                BY <1>1, <1>4, <2>3, <4>1 DEF Root, Indices
        <3>3. call'[c].maj = 1
            BY <2>1, <3>2
        <3>4. Majors' = {1} /\ Free(1)' >= Need(n)
            BY <3>1 DEF Majors, Free
        <3> HIDE DEF n
        <3> QED
            BY <1>1, <2>1, <3>1, <3>3, <3>4 DEF UsedInv, Locked
    <2> QED
        BY <2>2, <2>3
<1> QED
    BY <1>3, <1>4

\* The steps that carve a block out or cut one.
LEMMA UsedByBlock ==
    ASSUME Inv, UsedInv, NEW c \in Callers, Callers = {c}, Take(c) \/ Cut(c)
    PROVE  UsedInv'
<1>1. /\ call \in [Callers -> CallType] /\ call[c] \in CallType /\ MajorsInv
      /\ LibAllocLock' /\ call'[c].at = "unlock"
    <2>1. LibAllocLock /\ LibAllocLock' = LibAllocLock
        BY DEF Take, Cut, UsedInv, Locked
    <2>2. call \in [Callers -> CallType] /\ call[c] \in CallType /\ MajorsInv
        BY DEF Inv, CallsInv
    <2>3. CASE Take(c)
        <3>1. PICK b \in Nat : Remembered(c) = [call[c] EXCEPT !.bestSize = b]
            BY <2>3, LoopFacts DEF Take
        <3>2. call'[c].at = "unlock"
            BY <2>2, <2>3, <3>1 DEF Take, CallType
        <3> QED
            BY <2>1, <2>2, <3>2
    <2>4. CASE Cut(c)
        <3>1. call'[c].at = "unlock"
            BY <2>2, <2>4 DEF Cut, CallType
        <3> QED
            BY <2>1, <2>2, <3>1
    <2> QED
        BY <2>3, <2>4
<1>2. AllUsed'
    <2>1. CASE Take(c)
        <3>1. call[c].maj \in Majors /\ call[c].req_size \in Requests
              /\ call[c].at = "loop"
            BY <2>1, LoopFacts DEF Take
        <3>2. /\ Len(majors') = Len(majors) /\ majors'[call[c].maj].first
              /\ \A i \in Majors \ {call[c].maj} : majors'[i] = majors[i]
            BY <1>1, <2>1, <3>1, TakeStep
        <3>3. \A i \in Majors \ {call[c].maj} : majors[i].first
            BY <3>1 DEF UsedInv
        <3> QED
            BY <3>2, <3>3 DEF AllUsed, Majors
    <2>2. CASE Cut(c)
        <3>1. /\ InUse(call[c].old) /\ call[c].req_size \in Requests
              /\ call[c].at = "check"
            BY <2>2 DEF Cut, Inv, CallsInv, CallOK
        <3>2. /\ Len(majors') = Len(majors) /\ majors'[call[c].old].first
              /\ \A i \in Majors \ {call[c].old} : majors'[i] = majors[i]
            BY <1>1, <2>2, <3>1, CutStep
        <3>3. AllUsed
            BY <3>1, UsedElsewhere
        <3> QED
            BY <3>2, <3>3 DEF AllUsed, Majors
    <2> QED
        BY <2>1, <2>2
<1> QED
    BY <1>1, <1>2, UsedKept DEF Locked

\* A new major is used at once, or is the one the loop goes on to.
LEMMA UsedByGrow ==
    ASSUME Inv, UsedInv, NEW c \in Callers, Callers = {c}, Grow(c)
    PROVE  UsedInv'
<1> DEFINE n == call[c].req_size
<1>1. PICK b \in Nat : Remembered(c) = [call[c] EXCEPT !.bestSize = b]
    BY LoopFacts DEF Grow
<1>2. /\ call \in [Callers -> CallType] /\ call[c] \in CallType
      /\ call[c].at = "loop" /\ MajorsInv
      /\ call[c].maj \in Majors /\ n \in Requests
    BY LoopFacts DEF Grow, Inv, CallsInv
<1>3. LibAllocLock /\ LibAllocLock'
    BY DEF Grow, UsedInv, Locked
<1>4. AllUsed
    BY UsedElsewhere DEF Grow
<1>5. CASE ~Available(n)
    <2>1. call'[c].at = "panic" /\ UNCHANGED majors
        BY <1>2, <1>5 DEF Grow, Goto, CallType
    <2>2. AllUsed'
        BY <1>4, <2>1 DEF AllUsed, Majors
    <2> QED
        BY <1>3, <2>1, <2>2, UsedKept DEF Locked
<1>6. CASE Available(n)
    <2> PICK new : new = Len(majors) + 1
        OBVIOUS
    <2>1. /\ Len(majors) \in Nat /\ Len(majors') = new
          /\ \A i \in Majors : majors'[i].first = majors[i].first
          /\ majors'[new] = Grown(c) /\ (Grown(c).first <=> Case1(c))
          /\ ~Case1(c) => Grown(c).size - Grown(c).usage >= Need(n)
        BY <1>2, <1>6, GrowStep DEF MajorsInv
    <2>2. Majors' = Majors \cup {new} /\ \A i \in Majors : majors'[i].first
        BY <1>4, <2>1 DEF Majors, AllUsed
    <2>3. CASE Case1(c)
        <3> DEFINE x == [Remembered(c) EXCEPT !.at = "unlock",
                                              !.maj = new, !.m = new]
        <3>1. call'[c].at = "unlock"
            <4>1. call' = [call EXCEPT ![c] = x]
                BY <1>6, <2>3 DEF Grow
            <4>2. x.at = "unlock"
                BY <1>1, <1>2 DEF CallType
            <4> HIDE DEF x
            <4> QED
                BY <1>2, <4>1, <4>2
        <3>2. AllUsed'
            BY <2>1, <2>2, <2>3 DEF AllUsed
        <3> QED
            BY <1>3, <3>1, <3>2, UsedKept DEF Locked
    <2>4. CASE ~Case1(c)
        <3>1. /\ call'[c].at = "loop" /\ call'[c].maj = new
              /\ call'[c].req_size = n
            <4> DEFINE x == [Remembered(c) EXCEPT !.maj = new]
            <4>1. call' = [call EXCEPT ![c] = x]
                BY <1>6, <2>4 DEF Grow
            <4>2. x.at = "loop" /\ x.maj = new /\ x.req_size = n
                BY <1>1, <1>2 DEF CallType
            <4> HIDE DEF x
            <4> QED
                BY <1>2, <4>1, <4>2
        <3>2. Free(new)' >= Need(n)
            BY <2>1, <2>4 DEF Free
        <3> HIDE DEF n
        <3> QED
            BY <1>3, <2>1, <2>2, <3>1, <3>2 DEF UsedInv, Locked
    <2> QED
        BY <2>3, <2>4
<1> QED
    BY <1>5, <1>6

LEMMA UsedNext ==
    ASSUME Inv, UsedInv, SingleCaller, [Next]_vars
    PROVE  UsedInv'
<1>1. CASE Next
    <2>1. PICK c \in Callers :
              \/ \E n \in Requests : Malloc(c, n)
              \/ \E m \in held[c], n \in Requests \ {0} : Realloc(c, m, n)
              \/ Step(c)
        BY <1>1 DEF Next
    <2>2. Callers = {c}
        BY DEF SingleCaller
    <2> QED
        BY <2>1, <2>2, UsedByQuiet, UsedByRoot, UsedByBlock, UsedByGrow DEF Step
<1>2. CASE UNCHANGED vars
    BY <1>2 DEF vars, UsedInv, Majors, Free
<1> QED
    BY <1>1, <1>2

\* With one caller at a time every page request of malloc (LibAlloc.c) ends in
\* a block, and no major is lost from the list: EveryMajorUsed.
THEOREM NothingInVain ==
    ASSUME SingleCaller
    PROVE  Spec => []EveryMajorUsed
<1>1. Inv /\ UsedInv => EveryMajorUsed
    <2> SUFFICES ASSUME Inv, UsedInv, ~LibAllocLock
                 PROVE  /\ l_memRoot = IF majors = << >> THEN 0 ELSE 1
                        /\ \A i \in Majors :
                              /\ majors[i].first
                              /\ majors[i].next
                                    = IF i = Len(majors) THEN 0 ELSE i + 1
        BY DEF EveryMajorUsed
    <2>1. PICK c \in Callers : TRUE
        BY DEF SingleCaller
    <2>2. call[c].at # "loop"
        BY DEF UsedInv, Locked
    <2>3. AllUsed
        BY <2>2, UsedElsewhere
    <2> QED
        BY <2>3 DEF AllUsed, Inv, MajorsInv, Chain
<1>2. Inv /\ UsedInv /\ [Next]_vars => UsedInv'
    BY UsedNext
<1> QED
    BY <1>1, <1>2, UsedInit, Invariance, PTL DEF Spec

=============================================================================
