-------------------------------- MODULE Slicer --------------------------------
(***************************************************************************)
(* Slicer::Slice (concrete/slicer/slicer.cpp): one request of the kernel   *)
(* is cut into fragments, one iteration of the loop at a time, for any     *)
(* number of IoT devices.                                                  *)
(*                                                                         *)
(* The kernel's requests are multiples of the fragment: NbdOpen sets no    *)
(* block size, so the nbd driver keeps its default of 1024 bytes.          *)
(***************************************************************************)
EXTENDS Striping, Sequences

CONSTANTS
  IotCounts,      \* the sizes m_fdsVectorPtr may have
  DeviceSize,     \* bytes of the nbd device, SIZE in daemon_main.cpp
  StorageSize,    \* bytes one IoT device calloc'ed
  UINT32          \* 2^32: the header's fields are uint32_t

ASSUME IotCountsAssumption == IotCounts \subseteq Nat \ {0}

(***************************************************************************)
(* Each IoT device alone is as large as the nbd device (512 MB both), and  *)
(* an offset in it fits in a header field.                                 *)
(***************************************************************************)
ASSUME SizesAssumption ==
  /\ DeviceSize \in Nat /\ StorageSize \in Nat /\ UINT32 \in Nat \ {0}
  /\ DeviceSize <= StorageSize
  /\ StorageSize <= UINT32

VARIABLES
  m_fullRequest,      \* the request: where it starts and how long it is
  num_of_iots,
  fragment_counter,
  curr,               \* (curr_iot, starting_offset)
  requests_vector,
  m_countSlices,
  returned            \* Slice has returned the vector

vars == <<m_fullRequest, num_of_iots, fragment_counter, curr, requests_vector,
          m_countSlices, returned>>

Requests ==
  {r \in [from : 0 .. DeviceSize, len : 0 .. DeviceSize] :
     /\ r.from % FRAGMENT_SIZE = 0
     /\ r.len % FRAGMENT_SIZE = 0
     /\ r.from + r.len <= DeviceSize}

(***************************************************************************)
(* The fields of a DeviceRequest that differ between fragments.  m_data is *)
(* the offset of the fragment's bytes in the buffer of the request.        *)
(***************************************************************************)
DeviceRequest(p, counter) ==
  [iot           |-> p.iot,
   m_iotOffset   |-> p.offset % UINT32,
   m_fragmentIdx |-> counter % UINT32,
   m_data        |-> counter * FRAGMENT_SIZE]

Init ==
  /\ m_fullRequest \in Requests
  /\ num_of_iots \in IotCounts
  /\ fragment_counter = 0
  /\ curr = StartPosition(m_fullRequest.from, num_of_iots)
  /\ requests_vector = <<>>
  /\ m_countSlices = 0
  /\ returned = FALSE

\* Mutant: <= for <.
IterateInclusive ==
  /\ ~returned
  /\ fragment_counter <= NumOfFragments(m_fullRequest.len)
  /\ requests_vector' =
       Append(requests_vector, DeviceRequest(curr, fragment_counter))
  /\ curr' = NextPosition(curr, num_of_iots)
  /\ fragment_counter' = fragment_counter + 1
  /\ UNCHANGED <<m_fullRequest, num_of_iots, m_countSlices, returned>>

Iterate ==
  /\ fragment_counter < NumOfFragments(m_fullRequest.len)
  /\ requests_vector' =
       Append(requests_vector, DeviceRequest(curr, fragment_counter))
  /\ curr' = NextPosition(curr, num_of_iots)
  /\ fragment_counter' = fragment_counter + 1
  /\ UNCHANGED <<m_fullRequest, num_of_iots, m_countSlices, returned>>

\* Mutant: the index of the last fragment is stored, not their number.
ReturnLastIdx ==
  /\ ~returned
  /\ fragment_counter >= NumOfFragments(m_fullRequest.len)
  /\ m_countSlices' = fragment_counter - 1
  /\ returned' = TRUE
  /\ UNCHANGED <<m_fullRequest, num_of_iots, fragment_counter, curr,
                 requests_vector>>

Return ==
  /\ ~returned
  /\ fragment_counter >= NumOfFragments(m_fullRequest.len)
  /\ m_countSlices' = fragment_counter
  /\ returned' = TRUE
  /\ UNCHANGED <<m_fullRequest, num_of_iots, fragment_counter, curr,
                 requests_vector>>

Next == Iterate \/ Return

Spec == Init /\ [][Next]_vars

-----------------------------------------------------------------------------
Cells == [iot : Nat, offset : Nat]

TypeOK ==
  /\ m_fullRequest \in Requests
  /\ num_of_iots \in IotCounts
  /\ fragment_counter \in Nat
  /\ curr \in Cells
  /\ requests_vector \in Seq([iot : Nat, m_iotOffset : Nat,
                              m_fragmentIdx : Nat, m_data : Nat])
  /\ m_countSlices \in Nat
  /\ returned \in BOOLEAN

(***************************************************************************)
(* The incremental walk of the loop agrees with the closed form: fragment  *)
(* i of the request is sent to the device and offset that are the home of  *)
(* its address, whatever the number of devices and wherever the request    *)
(* starts, and its bytes are taken from where the address is in the        *)
(* request's buffer.                                                       *)
(***************************************************************************)
FragmentsAtHome ==
  \A i \in 1 .. Len(requests_vector) :
    LET f == requests_vector[i]
        b == (i - 1) * FRAGMENT_SIZE
        h == Home(m_fullRequest.from + b, num_of_iots)
    IN  /\ f.iot = h.iot
        /\ f.m_iotOffset = h.offset
        /\ f.m_data = b

(***************************************************************************)
(* No fragment reaches past the storage of its device: the device indexes  *)
(* its calloc'ed storage with m_iotOffset and checks nothing.              *)
(***************************************************************************)
WithinStorage ==
  \A i \in 1 .. Len(requests_vector) :
    /\ requests_vector[i].iot < num_of_iots
    /\ requests_vector[i].m_iotOffset + FRAGMENT_SIZE <= StorageSize

(***************************************************************************)
(* The number of replies that Splicer::Reply will wait for is the number   *)
(* of fragments returned, and together they are the whole request.         *)
(***************************************************************************)
CountsTheSlices ==
  returned => /\ m_countSlices = Len(requests_vector)
              /\ m_countSlices * FRAGMENT_SIZE = m_fullRequest.len

=============================================================================
