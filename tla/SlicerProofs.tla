------------------------------ MODULE SlicerProofs ------------------------------
(***************************************************************************)
(* Proofs about Slicer::Slice for every fragment size, device size and     *)
(* number of IoT devices.                                                  *)
(***************************************************************************)
EXTENDS Slicer, TLAPS

(***************************************************************************)
(* Division by a positive number: the quotient and the remainder, and that *)
(* they are the only ones.                                                 *)
(***************************************************************************)
LEMMA Division ==
  ASSUME NEW x \in Nat, NEW n \in Nat \ {0}
  PROVE  /\ x \div n \in Nat
         /\ (x % n) \in 0 .. (n - 1)
         /\ x = (n * (x \div n)) + (x % n)
OBVIOUS

(***************************************************************************)
(* A quotient and a remainder smaller than n determine each other.         *)
(***************************************************************************)
LEMMA DivisionUnique ==
  ASSUME NEW x \in Nat, NEW n \in Nat \ {0}, NEW q \in Nat, NEW r \in Nat,
         r < n, x = (n * q) + r
  PROVE  x \div n = q /\ (x % n) = r
OBVIOUS

(***************************************************************************)
(* The step of the loop: advancing the remainder modulo n and carrying     *)
(* into the quotient when it wraps to 0 is adding one.                     *)
(***************************************************************************)
LEMMA DivisionStep ==
  ASSUME NEW x \in Nat, NEW n \in Nat \ {0}
  PROVE  /\ ((x + 1) % n) = ((x % n) + 1) % n
         /\ (x + 1) \div n = IF ((x % n) + 1) % n = 0 THEN (x \div n) + 1
                                                      ELSE x \div n
OBVIOUS

(***************************************************************************)
(* A whole number of fragments, divided by the size of a fragment.         *)
(***************************************************************************)
LEMMA WholeFragments ==
  ASSUME NEW q \in Nat
  PROVE  /\ (q * FRAGMENT_SIZE) \div FRAGMENT_SIZE = q
         /\ ((q * FRAGMENT_SIZE) % FRAGMENT_SIZE) = 0
<1>1. q * FRAGMENT_SIZE \in Nat /\ q * FRAGMENT_SIZE = (FRAGMENT_SIZE * q) + 0
  BY FragmentSizeAssumption
<1> QED
  BY <1>1, DivisionUnique, FragmentSizeAssumption

(***************************************************************************)
(* Two different blocks of the device never share a cell: the striping of  *)
(* Slice loses no data by overwriting one block with another.              *)
(***************************************************************************)
THEOREM HomeIsInjective ==
  ASSUME NEW n \in Nat \ {0}, NEW a \in Nat, NEW b \in Nat,
         (a % FRAGMENT_SIZE) = 0, (b % FRAGMENT_SIZE) = 0,
         Home(a, n) = Home(b, n)
  PROVE  a = b
<1> DEFINE x == a \div FRAGMENT_SIZE
           y == b \div FRAGMENT_SIZE
<1>1. /\ x \in Nat /\ y \in Nat
      /\ a = FRAGMENT_SIZE * x /\ b = FRAGMENT_SIZE * y
  BY Division, FragmentSizeAssumption
<1>2. /\ (x % n) = (y % n)
      /\ (x \div n) * FRAGMENT_SIZE = (y \div n) * FRAGMENT_SIZE
  BY DEF Home
<1> HIDE DEF x, y
<1>3. x \div n \in Nat /\ y \div n \in Nat
  BY <1>1, Division
<1>4. x \div n = y \div n
  <2>1. \A p, q \in Nat : p * FRAGMENT_SIZE = q * FRAGMENT_SIZE => p = q
    BY WholeFragments
  <2> QED BY <2>1, <1>2, <1>3
<1>5. x = y
  <2>1. /\ x = (n * (x \div n)) + (x % n)
        /\ y = (n * (y \div n)) + (y % n)
    BY <1>1, Division
  <2> QED BY <2>1, <1>2, <1>4
<1> QED
  BY <1>1, <1>5

-----------------------------------------------------------------------------
(***************************************************************************)
(* The cell of the x-th fragment of the device, and the fragment that the  *)
(* loop is about to make.                                                  *)
(***************************************************************************)
CellOf(x, n) == [iot |-> x % n, offset |-> (x \div n) * FRAGMENT_SIZE]

CurrFragIdx == FirstFragIdx(m_fullRequest.from) + fragment_counter

(***************************************************************************)
(* The walk starts in the cell of the first fragment and moves to the cell *)
(* of the next one.                                                        *)
(***************************************************************************)
LEMMA CellInCells ==
  ASSUME NEW x \in Nat, NEW n \in Nat \ {0}
  PROVE  CellOf(x, n) \in Cells
<1>1. (x % n) \in Nat /\ x \div n \in Nat
  BY Division
<1>2. (x \div n) * FRAGMENT_SIZE \in Nat
  BY <1>1, FragmentSizeAssumption
<1> QED
  BY <1>1, <1>2 DEF CellOf, Cells

(***************************************************************************)
(* NextPosition moves the walk from the cell of fragment j to the cell of  *)
(* fragment j + 1.                                                         *)
(***************************************************************************)
LEMMA WalkStep ==
  ASSUME NEW x \in Nat, NEW n \in Nat \ {0}
  PROVE  NextPosition(CellOf(x, n), n) = CellOf(x + 1, n)
<1>1. /\ ((x + 1) % n) = ((x % n) + 1) % n
      /\ (x + 1) \div n = IF ((x % n) + 1) % n = 0 THEN (x \div n) + 1
                                                   ELSE x \div n
  BY DivisionStep
<1>2. x \div n \in Nat
  BY Division
<1>3. ((x \div n) + 1) * FRAGMENT_SIZE = ((x \div n) * FRAGMENT_SIZE) + FRAGMENT_SIZE
  BY <1>2, FragmentSizeAssumption
<1> QED
  BY <1>1, <1>3 DEF NextPosition, CellOf

(***************************************************************************)
(* A request starts at a whole number of fragments and is one long.        *)
(***************************************************************************)
LEMMA RequestInFragments ==
  ASSUME NEW r \in Requests
  PROVE  /\ FirstFragIdx(r.from) \in Nat
         /\ NumOfFragments(r.len) \in Nat
         /\ r.from = FRAGMENT_SIZE * FirstFragIdx(r.from)
         /\ r.len = FRAGMENT_SIZE * NumOfFragments(r.len)
         /\ r.from + r.len <= DeviceSize
<1>1. /\ r.from \in Nat /\ (r.from % FRAGMENT_SIZE) = 0
      /\ r.len \in Nat /\ (r.len % FRAGMENT_SIZE) = 0
      /\ r.from + r.len <= DeviceSize
  BY SizesAssumption DEF Requests
<1>2. \A a \in Nat : (a % FRAGMENT_SIZE) = 0 =>
        /\ a \div FRAGMENT_SIZE \in Nat
        /\ a = FRAGMENT_SIZE * (a \div FRAGMENT_SIZE)
  BY Division, FragmentSizeAssumption
<1> QED
  BY <1>1, <1>2 DEF FirstFragIdx, NumOfFragments

(***************************************************************************)
(* The home of the i-th fragment of a request is the cell the walk is in.  *)
(***************************************************************************)
LEMMA HomeOfFragment ==
  ASSUME NEW r \in Requests, NEW i \in Nat, NEW n \in Nat \ {0}
  PROVE  Home(r.from + (i * FRAGMENT_SIZE), n)
           = CellOf(FirstFragIdx(r.from) + i, n)
<1> DEFINE f == FirstFragIdx(r.from)
<1>1. /\ f \in Nat
      /\ r.from = FRAGMENT_SIZE * f
  BY RequestInFragments
<1> HIDE DEF f
<1>2. r.from + (i * FRAGMENT_SIZE) = (f + i) * FRAGMENT_SIZE
  BY <1>1, FragmentSizeAssumption
<1>3. (r.from + (i * FRAGMENT_SIZE)) \div FRAGMENT_SIZE = f + i
  BY <1>1, <1>2, WholeFragments
<1> QED
  BY <1>3 DEF Home, CellOf, f

(***************************************************************************)
(* A fragment inside the request lies inside the storage of its device.    *)
(***************************************************************************)
LEMMA CellWithinStorage ==
  ASSUME NEW r \in Requests, NEW i \in Nat, i < NumOfFragments(r.len),
         NEW n \in Nat \ {0}
  PROVE  /\ CellOf(FirstFragIdx(r.from) + i, n).iot < n
         /\ CellOf(FirstFragIdx(r.from) + i, n).offset + FRAGMENT_SIZE
              <= StorageSize
<1> DEFINE f == FirstFragIdx(r.from)
           k == NumOfFragments(r.len)
           x == f + i
<1>1. /\ f \in Nat /\ k \in Nat
      /\ r.from = FRAGMENT_SIZE * f
      /\ r.len = FRAGMENT_SIZE * k
  BY RequestInFragments
<1>2. (FRAGMENT_SIZE * f) + (FRAGMENT_SIZE * k) <= StorageSize
  BY <1>1, RequestInFragments, SizesAssumption DEF Requests
<1> HIDE DEF f, k
<1>3. FRAGMENT_SIZE * (x + 1) <= StorageSize
  <2>1. x + 1 \in Nat /\ x + 1 <= f + k /\ i < k
    BY <1>1 DEF k
  <2>2. FRAGMENT_SIZE * (x + 1) <= FRAGMENT_SIZE * (f + k)
    BY <2>1, <1>1, FragmentSizeAssumption
  <2> QED BY <2>1, <2>2, <1>1, <1>2, FragmentSizeAssumption, SizesAssumption
<1>4. x \in Nat /\ x \div n \in Nat /\ x \div n <= x /\ (x % n) < n
  BY <1>1
<1> HIDE DEF x
<1>5. ((x \div n) * FRAGMENT_SIZE) + FRAGMENT_SIZE <= FRAGMENT_SIZE * (x + 1)
  BY <1>4, FragmentSizeAssumption
<1>6. ((x \div n) * FRAGMENT_SIZE) + FRAGMENT_SIZE <= StorageSize
  BY <1>3, <1>4, <1>5, FragmentSizeAssumption, SizesAssumption
<1> QED
  BY <1>4, <1>6 DEF CellOf, x, f

-----------------------------------------------------------------------------
(***************************************************************************)
(* The inductive invariant.  FragmentsAtHome alone is not inductive: it    *)
(* says nothing of curr, from which the next fragment is made.             *)
(***************************************************************************)
WalkInv ==
  /\ curr = CellOf(CurrFragIdx, num_of_iots)
  /\ Len(requests_vector) = fragment_counter
  /\ fragment_counter <= NumOfFragments(m_fullRequest.len)
  /\ returned => /\ fragment_counter = NumOfFragments(m_fullRequest.len)
                 /\ m_countSlices = fragment_counter

IInv == TypeOK /\ WalkInv /\ FragmentsAtHome /\ WithinStorage

(***************************************************************************)
(* What every step needs of the types.                                     *)
(***************************************************************************)
LEMMA Typing ==
  ASSUME TypeOK
  PROVE  /\ m_fullRequest \in Requests
         /\ num_of_iots \in Nat \ {0}
         /\ fragment_counter \in Nat
         /\ CurrFragIdx \in Nat
<1>1. /\ m_fullRequest \in Requests
      /\ num_of_iots \in Nat \ {0}
      /\ fragment_counter \in Nat
  BY IotCountsAssumption DEF TypeOK
<1> QED
  BY <1>1, RequestInFragments DEF CurrFragIdx

(***************************************************************************)
(* The walk starts in the cell of the request's first fragment.            *)
(***************************************************************************)
LEMMA InitInv == Init => IInv
<1> SUFFICES ASSUME Init PROVE IInv
  OBVIOUS
<1>1. m_fullRequest \in Requests /\ num_of_iots \in Nat \ {0}
  BY IotCountsAssumption DEF Init
<1>2. /\ FirstFragIdx(m_fullRequest.from) \in Nat
      /\ NumOfFragments(m_fullRequest.len) \in Nat
  BY <1>1, RequestInFragments
<1>3. curr = CellOf(CurrFragIdx, num_of_iots)
  BY <1>2 DEF Init, StartPosition, CellOf, CurrFragIdx
<1>4. curr \in Cells
  BY <1>1, <1>2, CellInCells DEF Init, StartPosition, CellOf
<1>5. TypeOK
  <2>1. requests_vector \in Seq([iot : Nat, m_iotOffset : Nat,
                                 m_fragmentIdx : Nat, m_data : Nat])
    BY DEF Init
  <2>2. fragment_counter \in Nat /\ m_countSlices \in Nat
    BY DEF Init
  <2>3. returned \in BOOLEAN
    BY DEF Init
  <2> QED BY <1>1, <1>4, <2>1, <2>2, <2>3 DEF Init, TypeOK
<1>6. WalkInv
  BY <1>2, <1>3 DEF Init, WalkInv
<1> QED
  BY <1>5, <1>6 DEF Init, IInv, FragmentsAtHome, WithinStorage

(***************************************************************************)
(* The fragment an iteration appends: its fields.                          *)
(***************************************************************************)
LEMMA NewFragment ==
  ASSUME TypeOK, WalkInv, Iterate
  PROVE  LET f == DeviceRequest(curr, fragment_counter)
             h == Home(m_fullRequest.from
                         + (fragment_counter * FRAGMENT_SIZE), num_of_iots)
         IN  /\ f \in [iot : Nat, m_iotOffset : Nat,
                       m_fragmentIdx : Nat, m_data : Nat]
             /\ f.iot = h.iot
             /\ f.m_iotOffset = h.offset
             /\ f.m_data = fragment_counter * FRAGMENT_SIZE
             /\ f.iot < num_of_iots
             /\ f.m_iotOffset + FRAGMENT_SIZE <= StorageSize
<1> DEFINE c == CellOf(CurrFragIdx, num_of_iots)
           f == DeviceRequest(curr, fragment_counter)
<1>1. /\ m_fullRequest \in Requests /\ num_of_iots \in Nat \ {0}
      /\ fragment_counter \in Nat /\ CurrFragIdx \in Nat
  BY Typing
<1>2. /\ curr = c
      /\ c = Home(m_fullRequest.from + (fragment_counter * FRAGMENT_SIZE),
                  num_of_iots)
  BY <1>1, HomeOfFragment DEF WalkInv, CurrFragIdx
<1>3. c \in Cells
  BY <1>1, CellInCells
<1>4. c.iot < num_of_iots /\ c.offset + FRAGMENT_SIZE <= StorageSize
  BY <1>1, CellWithinStorage DEF Iterate, CurrFragIdx
<1> HIDE DEF c
<1>5. (c.offset % UINT32) = c.offset
  BY <1>3, <1>4, SizesAssumption, FragmentSizeAssumption DEF Cells
<1>6. /\ f.iot = c.iot /\ f.m_iotOffset = c.offset
      /\ f.m_fragmentIdx = (fragment_counter % UINT32)
      /\ f.m_data = fragment_counter * FRAGMENT_SIZE
      /\ f = [iot |-> c.iot, m_iotOffset |-> c.offset,
              m_fragmentIdx |-> (fragment_counter % UINT32),
              m_data |-> fragment_counter * FRAGMENT_SIZE]
  BY <1>2, <1>5 DEF DeviceRequest
<1>7. /\ (fragment_counter % UINT32) \in Nat
      /\ fragment_counter * FRAGMENT_SIZE \in Nat
      /\ c.iot \in Nat /\ c.offset \in Nat
  BY <1>1, <1>3, SizesAssumption, FragmentSizeAssumption DEF Cells
<1> HIDE DEF f
<1>8. f \in [iot : Nat, m_iotOffset : Nat, m_fragmentIdx : Nat, m_data : Nat]
  BY <1>6, <1>7
<1> QED
  BY <1>2, <1>4, <1>6, <1>8 DEF f

(***************************************************************************)
(* An iteration of the loop and the return of Slice keep the invariant.    *)
(***************************************************************************)
LEMMA NextInv == IInv /\ [Next]_vars => IInv'
<1> SUFFICES ASSUME IInv, [Next]_vars PROVE IInv'
  OBVIOUS
<1> USE DEF IInv
<1>1. CASE Iterate
  <2> DEFINE f == DeviceRequest(curr, fragment_counter)
             h == Home(m_fullRequest.from
                         + (fragment_counter * FRAGMENT_SIZE), num_of_iots)
  <2>1. /\ f \in [iot : Nat, m_iotOffset : Nat,
                  m_fragmentIdx : Nat, m_data : Nat]
        /\ f.iot = h.iot
        /\ f.m_iotOffset = h.offset
        /\ f.m_data = fragment_counter * FRAGMENT_SIZE
        /\ f.iot < num_of_iots
        /\ f.m_iotOffset + FRAGMENT_SIZE <= StorageSize
    BY <1>1, NewFragment
  <2>2. /\ m_fullRequest \in Requests /\ num_of_iots \in Nat \ {0}
        /\ fragment_counter \in Nat /\ CurrFragIdx \in Nat
        /\ NumOfFragments(m_fullRequest.len) \in Nat
    BY Typing, RequestInFragments
  <2>3. /\ requests_vector' = Append(requests_vector, f)
        /\ fragment_counter' = fragment_counter + 1
        /\ UNCHANGED <<m_fullRequest, num_of_iots, m_countSlices, returned>>
    BY <1>1 DEF Iterate
  <2> HIDE DEF f
  <2>4. /\ Len(requests_vector) = fragment_counter
        /\ requests_vector' \in Seq([iot : Nat, m_iotOffset : Nat,
                                     m_fragmentIdx : Nat, m_data : Nat])
        /\ Len(requests_vector') = fragment_counter + 1
        /\ \A i \in 1 .. fragment_counter :
              requests_vector'[i] = requests_vector[i]
        /\ requests_vector'[fragment_counter + 1] = f
    BY <2>1, <2>2, <2>3 DEF TypeOK, WalkInv
  <2>5. curr' = CellOf(CurrFragIdx, num_of_iots)'
    <3>1. curr' = CellOf(CurrFragIdx + 1, num_of_iots)
      BY <1>1, <2>2, WalkStep DEF Iterate, WalkInv
    <3>2. CurrFragIdx' = CurrFragIdx + 1
      BY <2>2, <2>3, RequestInFragments DEF CurrFragIdx
    <3> QED BY <3>1, <3>2, <2>3 DEF CellOf
  <2>6. curr' \in Cells
    <3>1. CurrFragIdx + 1 \in Nat
      BY <2>2
    <3> QED BY <1>1, <2>2, <3>1, WalkStep, CellInCells DEF Iterate, WalkInv
  <2>7. TypeOK'
    BY <2>2, <2>3, <2>4, <2>6 DEF TypeOK
  <2>8. WalkInv'
    BY <1>1, <2>2, <2>3, <2>4, <2>5 DEF WalkInv, Iterate
  <2>9. FragmentsAtHome'
    <3> SUFFICES ASSUME NEW i \in 1 .. (fragment_counter + 1)
                 PROVE  LET g == requests_vector'[i]
                            b == (i - 1) * FRAGMENT_SIZE
                            home == Home(m_fullRequest.from + b, num_of_iots)
                        IN  /\ g.iot = home.iot
                            /\ g.m_iotOffset = home.offset
                            /\ g.m_data = b
      BY <2>3, <2>4 DEF FragmentsAtHome
    <3>1. CASE i \in 1 .. fragment_counter
      BY <3>1, <2>4 DEF FragmentsAtHome
    <3>2. CASE i = fragment_counter + 1
      <4>1. i - 1 = fragment_counter
        BY <3>2, <2>2
      <4> QED BY <4>1, <3>2, <2>1, <2>4
    <3> QED BY <3>1, <3>2, <2>2
  <2>10. WithinStorage'
    <3> SUFFICES ASSUME NEW i \in 1 .. (fragment_counter + 1)
                 PROVE  /\ requests_vector'[i].iot < num_of_iots
                        /\ requests_vector'[i].m_iotOffset + FRAGMENT_SIZE
                             <= StorageSize
      BY <2>3, <2>4 DEF WithinStorage
    <3>1. CASE i \in 1 .. fragment_counter
      BY <3>1, <2>4 DEF WithinStorage
    <3>2. CASE i = fragment_counter + 1
      BY <3>2, <2>1, <2>4
    <3> QED BY <3>1, <3>2, <2>2
  <2> QED BY <2>7, <2>8, <2>9, <2>10
<1>2. CASE Return
  <2>1. fragment_counter = NumOfFragments(m_fullRequest.len)
    BY <1>2, Typing, RequestInFragments DEF Return, WalkInv
  <2> QED
    BY <1>2, <2>1 DEF Return, TypeOK, WalkInv, FragmentsAtHome, WithinStorage,
                      CurrFragIdx
<1>3. CASE UNCHANGED vars
  BY <1>3 DEF vars, TypeOK, WalkInv, FragmentsAtHome, WithinStorage, CurrFragIdx
<1> QED
  BY <1>1, <1>2, <1>3 DEF Next

(***************************************************************************)
(* IInv is an invariant of Slice.                                          *)
(***************************************************************************)
LEMMA Invariance == Spec => []IInv
<1> QED
  BY InitInv, NextInv, PTL DEF Spec

(***************************************************************************)
(* Slice's loop keeps every variable in its type, whatever the request.    *)
(***************************************************************************)
THEOREM TypeCorrect == Spec => []TypeOK
<1>1. IInv => TypeOK
  BY DEF IInv
<1> QED
  BY <1>1, Invariance, PTL

(***************************************************************************)
(* For every fragment size, request and number of IoT devices, the loop of *)
(* Slice sends each fragment to the home of its address.                   *)
(***************************************************************************)
THEOREM SliceFollowsStriping == Spec => []FragmentsAtHome
<1>1. IInv => FragmentsAtHome
  BY DEF IInv
<1> QED
  BY <1>1, Invariance, PTL

(***************************************************************************)
(* No fragment of Slice reaches past the storage of an IoT device, and no  *)
(* offset is cut by the 32 bits of m_iotOffset.                            *)
(***************************************************************************)
THEOREM SliceStaysWithinStorage == Spec => []WithinStorage
<1>1. IInv => WithinStorage
  BY DEF IInv
<1> QED
  BY <1>1, Invariance, PTL

(***************************************************************************)
(* When Slice returns, m_countSlices is the number of fragments made and   *)
(* they are as long as the request.                                        *)
(***************************************************************************)
THEOREM SliceCounts == Spec => []CountsTheSlices
<1>1. IInv => CountsTheSlices
  <2> SUFFICES ASSUME IInv, returned
               PROVE  /\ m_countSlices = Len(requests_vector)
                      /\ m_countSlices * FRAGMENT_SIZE = m_fullRequest.len
    BY DEF CountsTheSlices
  <2>1. /\ m_countSlices = NumOfFragments(m_fullRequest.len)
        /\ m_countSlices = Len(requests_vector)
    BY DEF IInv, WalkInv
  <2>2. /\ NumOfFragments(m_fullRequest.len) \in Nat
        /\ m_fullRequest.len
             = FRAGMENT_SIZE * NumOfFragments(m_fullRequest.len)
    BY RequestInFragments DEF IInv, TypeOK
  <2> QED BY <2>1, <2>2, FragmentSizeAssumption
<1> QED
  BY <1>1, Invariance, PTL

=============================================================================
