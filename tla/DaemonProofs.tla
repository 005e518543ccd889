------------------------------ MODULE DaemonProofs ------------------------------
(***************************************************************************)
(* The data path for any number of requests, workers, devices and          *)
(* fragments, with devices that fail.                                      *)
(***************************************************************************)
EXTENDS Daemon, FiniteSetTheorems, SequenceTheorems, TLAPS

(***************************************************************************)
(* The uids have not wrapped: Slice has not cut more requests than a       *)
(* uint32_t tells apart.                                                   *)
(***************************************************************************)
UidsLast == request_counter <= UidSpace

-----------------------------------------------------------------------------
Bytes == (Handles \X Nat) \cup {Zero, Junk}
DataMessages == [kind : {"data"}, bytes : Bytes]
Messages == Headers \cup DataMessages
RequestTasks == [kind : {"request"}, h : Handles]
ReplyTasks == [kind : {"reply"}, header : Headers \cup {MadeUp}, bytes : Bytes]
Reactors ==
  {Select, Spinning} \cup [at : {"return"}, h : Handles]
    \cup [at : {"data"}, iot : Iots, header : Headers]
IotStates ==
  {IotIdle, Closed} \cup [at : {"read", "write", "ack", "sendData"}, header : Headers]
PCs == {"pop", "slice", "insert", "send", "sendHeader", "sendData", "reply", "release"}

(***************************************************************************)
(* The types of the variables, finer than TypeOK.                          *)
(***************************************************************************)
KernelTypes ==
  /\ request \in [Handles -> Shapes \cup {Unset}]
  /\ nbdSocket \in Seq(Handles)
  /\ nbdUp \in BOOLEAN
ReactorTypes ==
  /\ reactor \in Reactors /\ eofReads \in 0 .. MaxEofReads
TaskTypes ==
  /\ tasks \subseteq RequestTasks \cup ReplyTasks
  /\ task \in [Workers -> RequestTasks \cup ReplyTasks \cup {Nobody}]
WorkerTypes ==
  /\ pc \in [Workers -> PCs]
  /\ frag \in [Workers -> Nat]
  /\ held \in [Workers -> Handles \cup {Nobody}]
  /\ senderMutex \in Workers \cup {Nobody}
  /\ status \in {"up", "null slicer", "overwritten", "SIGPIPE", "terminated"}
SlicerTypes ==
  /\ request_counter \in Nat
  /\ m_requestUid \in [Handles -> Uids \cup {Unset}]
  /\ m_countSlices \in [Handles -> Int]
  /\ m_slicerMap \in [Uids -> Handles \cup {Nobody}]
NetTypes ==
  /\ toIot \in [Iots -> Seq(Messages)] /\ fromIot \in [Iots -> Seq(Messages)]
  /\ \A i \in Iots : Len(toIot[i]) <= SocketCap /\ Len(fromIot[i]) <= SocketCap
DeviceTypes ==
  /\ iot \in [Iots -> IotStates]
  /\ storage \in [Iots -> [Offsets -> Bytes]]

TypeInv ==
  /\ KernelTypes /\ ReactorTypes /\ TaskTypes /\ WorkerTypes
  /\ SlicerTypes /\ NetTypes /\ DeviceTypes

-----------------------------------------------------------------------------
(***************************************************************************)
(* A request waits in the kernel's socket, then in a task, and is then     *)
(* served by one worker, which slices and sends it.                        *)
(***************************************************************************)
Sends(w)  == pc[w] \in {"send", "sendHeader", "sendData"}
Serves(w) == pc[w] \in {"slice", "insert"} \/ Sends(w)
Sliced(h) == m_requestUid[h] # Unset
NumOf(h)  == NumOfFragments(request[h].len)
InNbd(h)  == \E j \in 1 .. Len(nbdSocket) : nbdSocket[j] = h

HasBuffer(h) == request[h] # Unset /\ buffer[h] \in [Blocks(request[h]) -> Bytes]

WorkersOK ==
  \A w \in Workers :
    /\ Serves(w) => held[w] \in Handles /\ HasBuffer(held[w])
    /\ pc[w] = "slice" => ~Sliced(held[w])
    /\ pc[w] = "insert" \/ Sends(w) => Sliced(held[w])
    /\ Sends(w) => frag[w] < NumOf(held[w])
    /\ pc[w] = "release" => held[w] \in Handles
    /\ pc[w] = "reply" => task[w] \in ReplyTasks
OneServer ==
  \A v, w \in Workers : Serves(v) /\ Serves(w) /\ held[v] = held[w] => v = w
Unserved(h) == ~Sliced(h) /\ \A w \in Workers : Serves(w) => held[w] # h
TasksOK ==
  \A h \in Handles : RequestTask(h) \in tasks => HasBuffer(h) /\ Unserved(h)
SocketOK ==
  /\ \A h \in Handles : InNbd(h) =>
       request[h] # Unset /\ RequestTask(h) \notin tasks /\ Unserved(h)
  /\ \A j, k \in 1 .. Len(nbdSocket) : nbdSocket[j] = nbdSocket[k] => j = k
BuffersOK ==
  /\ \A h \in Handles : Sliced(h) => HasBuffer(h)
  /\ buffer = [h \in Handles |-> buffer[h]]

ServeInv == WorkersOK /\ OneServer /\ TasksOK /\ SocketOK /\ BuffersOK

(***************************************************************************)
(* Uids are different, the map leads to the request with the uid, and its  *)
(* slicer waits for a reply unless it is that of a disconnect.             *)
(***************************************************************************)
UidInv ==
  /\ \A h \in Handles : Sliced(h) => m_requestUid[h] < request_counter
  /\ \A g, h \in Handles : Sliced(h) /\ m_requestUid[g] = m_requestUid[h] => g = h
  /\ \A u \in Uids : m_slicerMap[u] # Nobody =>
       /\ m_requestUid[m_slicerMap[u]] = u
       /\ request[m_slicerMap[u]].type = "DISC" \/ m_countSlices[m_slicerMap[u]] > 0
  /\ \A w \in Workers : pc[w] = "insert" =>
       /\ m_slicerMap[m_requestUid[held[w]]] = Nobody
       /\ m_countSlices[held[w]] = NumOf(held[w])

-----------------------------------------------------------------------------
(***************************************************************************)
(* The header of fragment k of request h and the device it is sent to.     *)
(***************************************************************************)
Place(h, k) == Positions(request[h].from, NumOf(h), NumOfIots)[k]
HeaderOf(h, k) == Header(m_requestUid[h], k, request[h].type, Place(h, k).offset, h)

IsHeader(m) ==
  /\ m \in Headers /\ Sliced(m.owner) /\ m.m_fragmentIdx < NumOf(m.owner)
  /\ m = HeaderOf(m.owner, m.m_fragmentIdx)

(***************************************************************************)
(* The fragments below NextFrag(w) were sent; the data of the one at       *)
(* NextFrag(w) was not.                                                    *)
(***************************************************************************)
NextFrag(w) == IF Sends(w) THEN frag[w] ELSE 0

\* The header of a fragment that was sent,
WasSent(m) ==
  /\ IsHeader(m)
  /\ \A w \in Workers : Serves(w) /\ held[w] = m.owner => m.m_fragmentIdx < NextFrag(w)

\* or whose data is being sent.
IsSent(m) ==
  /\ IsHeader(m)
  /\ \A w \in Workers : Serves(w) /\ held[w] = m.owner =>
       m.m_fragmentIdx < NextFrag(w) \/ (pc[w] = "sendData" /\ m.m_fragmentIdx = frag[w])

HomeOf(m) == Place(m.owner, m.m_fragmentIdx).iot

RequestHeaders ==
  \A i \in Iots : \A j \in 1 .. Len(toIot[i]) :
    toIot[i][j].kind = "header" => IsSent(toIot[i][j]) /\ HomeOf(toIot[i][j]) = i
ReplyHeaders ==
  \A i \in Iots : \A j \in 1 .. Len(fromIot[i]) :
    fromIot[i][j].kind = "header" => WasSent(fromIot[i][j]) /\ HomeOf(fromIot[i][j]) = i
DeviceHeaders ==
  \A i \in Iots :
    /\ iot[i].at = "write" => IsSent(iot[i].header)
    /\ iot[i].at \in {"read", "ack", "sendData"} => WasSent(iot[i].header)
    /\ iot[i].at \in {"read", "write", "ack", "sendData"} =>
         /\ HomeOf(iot[i].header) = i
         /\ iot[i].header.m_type = IF iot[i].at \in {"read", "sendData"} THEN "READ" ELSE "WRITE"
ReactorHeaders ==
  /\ reactor.at = "data" =>
       /\ WasSent(reactor.header) /\ HomeOf(reactor.header) = reactor.iot
       /\ reactor.header.m_type = "READ"
  /\ eofReads > 0 => Broken

\* The header of a reply was sent, or was made up at the end of a stream.
Known(m) == IF m = MadeUp THEN eofReads > 0 ELSE WasSent(m)
TaskHeaders ==
  /\ \A t \in tasks : t.kind = "reply" => Known(t.header)
  /\ \A w \in Workers : pc[w] = "reply" => Known(task[w].header)

HeaderInv ==
  RequestHeaders /\ ReplyHeaders /\ DeviceHeaders /\ ReactorHeaders /\ TaskHeaders

-----------------------------------------------------------------------------
(***************************************************************************)
(* Framing.  The bytes sent are those of the WRITE as long as no header    *)
(* was made up.                                                            *)
(***************************************************************************)
FirstTo(i) == IF iot[i].at = "write" THEN iot[i].header ELSE Data(Zero)
FirstFrom(i) ==
  IF reactor.at = "data" /\ reactor.iot = i THEN reactor.header ELSE Data(Zero)

LastOf(s, first) == IF s = <<>> THEN first ELSE s[Len(s)]
Before(s, first, j) == IF j > 1 THEN s[j - 1] ELSE first
Wants(type, m) == m.kind = "header" /\ m.m_type = type

Framed(type, s, first) ==
  \A j \in 1 .. Len(s) : s[j].kind = "data" <=> Wants(type, Before(s, first, j))

Carries(value, s, first) ==
  \A j \in 1 .. Len(s) : s[j].kind = "data" =>
    s[j].bytes = value[Before(s, first, j).owner][Before(s, first, j).m_fragmentIdx]

Payloads == [h \in Handles |-> [k \in Nat |-> Payload(h, k)]]

SendingTo(w) == Place(held[w], frag[w]).iot
Sending(w) == HeaderOf(held[w], frag[w])

RequestFrames ==
  \A i \in Iots :
    /\ Framed("WRITE", toIot[i], FirstTo(i))
    /\ eofReads = 0 => Carries(Payloads, toIot[i], FirstTo(i))
    /\ iot[i] = Closed => toIot[i] = <<>>
    /\ Wants("WRITE", LastOf(toIot[i], FirstTo(i))) =>
         \E w \in Workers : pc[w] = "sendData" /\ SendingTo(w) = i
SendersOK ==
  \A w \in Workers :
    /\ pc[w] \in {"sendHeader", "sendData"} => senderMutex = w
    /\ pc[w] = "sendData" => request[held[w]].type = "WRITE"
    /\ pc[w] = "sendData" /\ iot[SendingTo(w)] # Closed =>
         LastOf(toIot[SendingTo(w)], FirstTo(SendingTo(w))) = Sending(w)
ReplyFrames ==
  \A i \in Iots :
    /\ Framed("READ", fromIot[i], FirstFrom(i))
    /\ iot[i] # Closed =>
         (Wants("READ", LastOf(fromIot[i], FirstFrom(i))) <=> iot[i].at = "sendData")

FrameInv == RequestFrames /\ SendersOK /\ ReplyFrames

(***************************************************************************)
(* A header that a worker sends the data of is the last one.               *)
(***************************************************************************)
OnceInv ==
  /\ \A i \in Iots : \A j, k \in 1 .. Len(toIot[i]) :
       toIot[i][j].kind = "header" /\ toIot[i][j] = toIot[i][k] => j = k
  /\ \A i \in Iots : \A j \in 1 .. Len(toIot[i]) :
       iot[i].at \in {"read", "write", "ack", "sendData"} => toIot[i][j] # iot[i].header

(***************************************************************************)
(* The bytes of a WRITE stay in its buffer until they are sent.            *)
(***************************************************************************)
BufferInv == eofReads = 0 =>
  /\ \A h \in Handles : RequestTask(h) \in tasks /\ request[h].type = "WRITE" =>
       \A k \in Blocks(request[h]) : buffer[h][k] = Payload(h, k)
  /\ \A w \in Workers : Serves(w) /\ request[held[w]].type = "WRITE" =>
       \A k \in Blocks(request[held[w]]) :
         k >= NextFrag(w) => buffer[held[w]][k] = Payload(held[w], k)

-----------------------------------------------------------------------------
(***************************************************************************)
(* Division by a positive number, and what adding one does to it.          *)
(***************************************************************************)
LEMMA Division ==
  ASSUME NEW x \in Nat, NEW n \in Nat \ {0}
  PROVE  /\ x \div n \in Nat
         /\ (x % n) \in 0 .. (n - 1)
         /\ x = (n * (x \div n)) + (x % n)
         /\ ((x + 1) % n) = ((x % n) + 1) % n
         /\ (x + 1) \div n = IF ((x % n) + 1) % n = 0 THEN (x \div n) + 1
                                                      ELSE x \div n
OBVIOUS

(***************************************************************************)
(* The quotient is the only one with a remainder smaller than n.           *)
(***************************************************************************)
LEMMA DivisionUnique ==
  ASSUME NEW x \in Nat, NEW n \in Nat \ {0}, NEW q \in Nat, NEW r \in Nat,
         r < n, x = (n * q) + r
  PROVE  x \div n = q /\ (x % n) = r
OBVIOUS

(***************************************************************************)
(* A set of natural numbers that is not empty has a least element, as the  *)
(* order of the naturals has no endless descent.                           *)
(***************************************************************************)
Below == {p \in Nat \X Nat : p[1] < p[2]}

\* A set of natural numbers that is not empty has a least element.
LEMMA LeastElement ==
  ASSUME NEW S \in SUBSET Nat, S # {}
  PROVE  \E m \in S : \A x \in S : m <= x
<1>1. IsWellFoundedOn(Below, Nat)
  BY NatLessThanWellFounded, Zenon DEF Below, OpToRel
<1>2. PICK m \in S : \A x \in S : ~(<<x, m>> \in Below)
  BY <1>1, WFMin, Zenon
<1>3. \A x \in S : x < m => <<x, m>> \in Below
  BY DEF Below
<1>4. \A x \in S : ~(x < m)
  BY <1>2, <1>3
<1> QED
  BY <1>4

(***************************************************************************)
(* The cell of the x-th block of the nbd device.                           *)
(***************************************************************************)
CellOf(x) == [iot |-> x % NumOfIots, offset |-> (x \div NumOfIots) * FRAGMENT_SIZE]

(***************************************************************************)
(* The walk of Slice is in the cell of every block it comes to.            *)
(***************************************************************************)
LEMMA Walk ==
  ASSUME NEW from \in Nat, NEW count \in Nat, NEW k \in 0 .. count
  PROVE  Positions(from, count, NumOfIots)[k] = CellOf(FirstFragIdx(from) + k)
<1> DEFINE f == FirstFragIdx(from)
           c == [j \in 0 .. count |-> CellOf(f + j)]
           p == Positions(from, count, NumOfIots)
<1>1. f \in Nat
  BY Division, FragmentSizeAssumption DEF FirstFragIdx
<1>2. CellOf(f) = StartPosition(from, NumOfIots)
  BY DEF CellOf, StartPosition
<1>3. ASSUME NEW x \in Nat PROVE NextPosition(CellOf(x), NumOfIots) = CellOf(x + 1)
  <2>1. x \div NumOfIots \in Nat
    BY Division, NumOfIotsAssumption
  <2>2. ((x \div NumOfIots) + 1) * FRAGMENT_SIZE
          = ((x \div NumOfIots) * FRAGMENT_SIZE) + FRAGMENT_SIZE
    BY <2>1, FragmentSizeAssumption
  <2> QED
    BY <2>2, Division, NumOfIotsAssumption DEF NextPosition, CellOf
<1>4. c = [j \in 0 .. count |-> IF j = 0 THEN StartPosition(from, NumOfIots)
                                ELSE NextPosition(c[j - 1], NumOfIots)]
  <2> SUFFICES ASSUME NEW j \in 0 .. count
               PROVE  CellOf(f + j) = IF j = 0 THEN StartPosition(from, NumOfIots)
                                      ELSE NextPosition(c[j - 1], NumOfIots)
    OBVIOUS
  <2> HIDE DEF f
  <2>1. CASE j = 0
    BY <1>1, <1>2, <2>1 DEF f
  <2>2. CASE j # 0
    <3>1. c[j - 1] = CellOf(f + (j - 1)) /\ f + (j - 1) \in Nat /\ (f + (j - 1)) + 1 = f + j
      BY <1>1, <2>2
    <3> QED
      BY <1>3, <2>2, <3>1
  <2> QED
    BY <2>1, <2>2
<1>5. p = [j \in 0 .. count |-> IF j = 0 THEN StartPosition(from, NumOfIots)
                                ELSE NextPosition(p[j - 1], NumOfIots)]
  BY <1>4, Zenon DEF Positions
<1> HIDE DEF c, p
<1>6. \A j \in 0 .. count : p[j] = c[j]
  <2> DEFINE S == {j \in 0 .. count : p[j] # c[j]}
  <2> SUFFICES ASSUME S # {} PROVE FALSE
    OBVIOUS
  <2>1. PICK m \in S : \A x \in S : m <= x
    <3>1. S \in SUBSET Nat
      OBVIOUS
    <3> HIDE DEF S
    <3> QED
      BY <3>1, LeastElement
  <2>2. m \in 0 .. count /\ m # 0
    BY <1>4, <1>5
  <2>3. p[m - 1] = c[m - 1]
    BY <2>1, <2>2
  <2> QED
    BY <1>4, <1>5, <2>2, <2>3
<1> QED
  BY <1>6 DEF c, p

(***************************************************************************)
(* The requests of the kernel are whole numbers of fragments, and only a   *)
(* disconnect has none.                                                    *)
(***************************************************************************)
LEMMA ShapeFacts ==
  ASSUME NEW s \in Shapes
  PROVE  /\ NumOfFragments(s.len) \in Nat
         /\ s.len = FRAGMENT_SIZE * NumOfFragments(s.len)
         /\ FirstFragIdx(s.from) \in Nat
         /\ s.from = FRAGMENT_SIZE * FirstFragIdx(s.from)
         /\ s.type = "DISC" <=> NumOfFragments(s.len) = 0
         /\ s.type \in {"READ", "WRITE", "DISC"}
         /\ Blocks(s) = 0 .. (NumOfFragments(s.len) - 1)
<1>1. /\ s.len \in Nat /\ s.from \in Nat /\ (s.from % FRAGMENT_SIZE) = 0
      /\ (s.len % FRAGMENT_SIZE) = 0 /\ (s.type = "DISC" <=> s.len = 0)
      /\ s.type \in {"READ", "WRITE", "DISC"}
  BY ShapesAssumption
<1>2. /\ s.len \div FRAGMENT_SIZE \in Nat /\ s.from \div FRAGMENT_SIZE \in Nat
      /\ s.len = FRAGMENT_SIZE * (s.len \div FRAGMENT_SIZE)
      /\ s.from = FRAGMENT_SIZE * (s.from \div FRAGMENT_SIZE)
  <2>1. \A x \in Nat : (x % FRAGMENT_SIZE) = 0 =>
          x \div FRAGMENT_SIZE \in Nat /\ x = FRAGMENT_SIZE * (x \div FRAGMENT_SIZE)
    BY Division, FragmentSizeAssumption
  <2> QED
    BY <1>1, <2>1
<1>3. s.len = 0 <=> s.len \div FRAGMENT_SIZE = 0
  BY <1>2, FragmentSizeAssumption
<1> QED
  BY <1>1, <1>2, <1>3 DEF NumOfFragments, FirstFragIdx, Blocks

(***************************************************************************)
(* A fragment is sent to the home of its address: a device and an offset   *)
(* that exist.                                                             *)
(***************************************************************************)
LEMMA FragmentAtHome ==
  ASSUME NEW s \in Shapes, NEW k \in Nat, k < NumOfFragments(s.len)
  PROVE  /\ Positions(s.from, NumOfFragments(s.len), NumOfIots)[k]
              = Home(Address(s, k), NumOfIots)
         /\ Home(Address(s, k), NumOfIots).iot \in Iots
         /\ Home(Address(s, k), NumOfIots).offset \in Offsets
         /\ Address(s, k) \in Offsets \ {DeviceSize}
<1> DEFINE n == NumOfFragments(s.len)
           f == FirstFragIdx(s.from)
           x == f + k
<1>1. n \in Nat /\ s.len = FRAGMENT_SIZE * n /\ f \in Nat /\ s.from = FRAGMENT_SIZE * f
  BY ShapeFacts
<1>2. s.from + s.len <= DeviceSize /\ DeviceSize \in Nat /\ s.from \in Nat /\ s.len \in Nat
  BY ShapesAssumption, BoundsAssumption
<1>3. Positions(s.from, n, NumOfIots)[k] = CellOf(x)
  BY <1>1, <1>2, Walk
<1> HIDE DEF n, f
<1>4. Address(s, k) = FRAGMENT_SIZE * x /\ x \in Nat /\ FRAGMENT_SIZE * x \in Nat
  BY <1>1, FragmentSizeAssumption DEF Address
<1>5. (FRAGMENT_SIZE * x) \div FRAGMENT_SIZE = x /\ ((FRAGMENT_SIZE * x) % FRAGMENT_SIZE) = 0
  BY <1>4, DivisionUnique, FragmentSizeAssumption
<1>6. Home(Address(s, k), NumOfIots) = CellOf(x)
  BY <1>4, <1>5 DEF Home, CellOf
<1>7. FRAGMENT_SIZE * x < DeviceSize
  <2>1. FRAGMENT_SIZE * (x + 1) <= FRAGMENT_SIZE * (f + n)
    <3>1. x + 1 <= f + n /\ x + 1 \in Nat /\ f + n \in Nat
      BY <1>1, <1>4 DEF n
    <3>2. \A a, b, d \in Nat : a <= b => d * a <= d * b
      OBVIOUS
    <3> QED
      BY <3>1, <3>2, FragmentSizeAssumption
  <2>2. FRAGMENT_SIZE * (x + 1) = (FRAGMENT_SIZE * x) + FRAGMENT_SIZE
    BY <1>4, FragmentSizeAssumption
  <2>3. FRAGMENT_SIZE * (f + n) = s.from + s.len
    BY <1>1, FragmentSizeAssumption
  <2> QED
    BY <1>2, <1>4, <2>1, <2>2, <2>3, FragmentSizeAssumption
<1>8. CellOf(x).iot \in Iots
  BY <1>4, Division, NumOfIotsAssumption DEF CellOf, Iots
<1>9. CellOf(x).offset \in Offsets
  <2> DEFINE q == x \div NumOfIots
  <2>1. q \in Nat /\ q <= x
    BY <1>4, NumOfIotsAssumption
  <2> HIDE DEF q
  <2>2. /\ q * FRAGMENT_SIZE \in Nat /\ q * FRAGMENT_SIZE = (FRAGMENT_SIZE * q) + 0
        /\ ((q * FRAGMENT_SIZE) % FRAGMENT_SIZE) = 0
    BY <2>1, DivisionUnique, FragmentSizeAssumption
  <2>3. q * FRAGMENT_SIZE <= FRAGMENT_SIZE * x
    BY <1>4, <2>1, FragmentSizeAssumption
  <2>4. CellOf(x).offset = q * FRAGMENT_SIZE
    BY DEF CellOf, q
  <2> QED
    BY <1>2, <1>4, <1>7, <2>2, <2>3, <2>4 DEF Offsets
<1> QED
  BY <1>2, <1>3, <1>4, <1>5, <1>6, <1>7, <1>8, <1>9 DEF Offsets, n

-----------------------------------------------------------------------------
(***************************************************************************)
(* Taking from the front of a sequence and putting at its end.             *)
(***************************************************************************)
LEMMA TakeOne ==
  ASSUME NEW S, NEW s \in Seq(S), s # <<>>
  PROVE  /\ Head(s) = s[1] /\ Head(s) \in S /\ Tail(s) \in Seq(S)
         /\ Len(s) \in Nat /\ Len(s) >= 1 /\ Len(Tail(s)) = Len(s) - 1
         /\ \A j \in 1 .. Len(Tail(s)) : j + 1 \in 1 .. Len(s) /\ Tail(s)[j] = s[j + 1]
<1>1. /\ Head(s) = s[1] /\ Head(s) \in S /\ Tail(s) \in Seq(S)
      /\ Len(s) \in Nat /\ Len(s) >= 1 /\ Len(Tail(s)) = Len(s) - 1
      /\ \A j \in 1 .. Len(Tail(s)) : Tail(s)[j] = s[j + 1]
  BY HeadTailProperties
<1> QED
  BY <1>1

\* What Append adds to a sequence.
LEMMA PutOne ==
  ASSUME NEW S, NEW s \in Seq(S), NEW m \in S
  PROVE  /\ Append(s, m) \in Seq(S) /\ Len(Append(s, m)) = Len(s) + 1 /\ Len(s) \in Nat
         /\ Append(s, m) # <<>> /\ Append(s, m)[Len(s) + 1] = m
         /\ \A j \in 1 .. Len(s) : Append(s, m)[j] = s[j]
BY AppendProperties

\* What is left of a sequence that is cut after n elements.
LEMMA CutOne ==
  ASSUME NEW S, NEW s \in Seq(S), NEW n \in 0 .. Len(s)
  PROVE  /\ SubSeq(s, 1, n) \in Seq(S) /\ Len(SubSeq(s, 1, n)) = n /\ n <= Len(s)
         /\ \A j \in 1 .. n : j \in 1 .. Len(s) /\ SubSeq(s, 1, n)[j] = s[j]
<1>1. Len(s) \in Nat
  BY LenProperties
<1> QED
  BY <1>1

(***************************************************************************)
(* What is taken from the front of a stream or put at its end keeps it     *)
(* framed.                                                                 *)
(***************************************************************************)
LEMMA TakeFront ==
  ASSUME NEW s \in Seq(Messages), s # <<>>, NEW first, NEW type, Framed(type, s, first)
  PROVE  /\ Framed(type, Tail(s), Head(s))
         /\ LastOf(Tail(s), Head(s)) = LastOf(s, first)
         /\ Head(s) \in Messages /\ Tail(s) \in Seq(Messages) /\ Len(Tail(s)) = Len(s) - 1
         /\ Head(s).kind = "data" <=> Wants(type, first)
         /\ \A value : Carries(value, s, first) =>
              /\ Carries(value, Tail(s), Head(s))
              /\ Head(s).kind = "data" => Head(s).bytes = value[first.owner][first.m_fragmentIdx]
<1>1. /\ Head(s) = s[1] /\ Head(s) \in Messages /\ Tail(s) \in Seq(Messages)
      /\ Len(s) \in Nat /\ Len(s) >= 1 /\ Len(Tail(s)) = Len(s) - 1
      /\ \A j \in 1 .. Len(Tail(s)) : Tail(s)[j] = s[j + 1]
  BY HeadTailProperties
<1>2. ASSUME NEW j \in 1 .. Len(Tail(s))
      PROVE  /\ j + 1 \in 1 .. Len(s) /\ Tail(s)[j] = s[j + 1]
             /\ Before(Tail(s), Head(s), j) = Before(s, first, j + 1)
  BY <1>1 DEF Before
<1>3. /\ Framed(type, Tail(s), Head(s))
      /\ \A value : Carries(value, s, first) => Carries(value, Tail(s), Head(s))
  BY <1>2 DEF Framed, Carries
<1>4. LastOf(Tail(s), Head(s)) = LastOf(s, first)
  <2>1. CASE Len(s) = 1
    <3>1. Tail(s) = <<>>
      <4>1. Tail(s) # <<>> => Len(Tail(s)) \in Nat \ {0}
        BY <1>1, EmptySeq, Zenon
      <4> QED
        BY <1>1, <2>1, <4>1
    <3> QED
      BY <1>1, <2>1, <3>1 DEF LastOf
  <2>2. CASE Len(s) # 1
    <3>1. Len(Tail(s)) # 0 /\ Len(Tail(s)) \in 1 .. Len(Tail(s))
      BY <1>1, <2>2
    <3>2. Tail(s) # <<>>
      BY <3>1, EmptySeq, Zenon
    <3> QED
      BY <1>1, <3>1, <3>2 DEF LastOf
  <2> QED
    BY <2>1, <2>2
<1>5. /\ Head(s).kind = "data" <=> Wants(type, first)
      /\ \A value : Carries(value, s, first) /\ Head(s).kind = "data" =>
           Head(s).bytes = value[first.owner][first.m_fragmentIdx]
  <2>1. 1 \in 1 .. Len(s) /\ Before(s, first, 1) = first
    BY <1>1 DEF Before
  <2> QED
    BY <1>1, <2>1 DEF Framed, Carries
<1> QED
  BY <1>1, <1>3, <1>4, <1>5

(***************************************************************************)
(* Append, with what the message before asks for.                          *)
(***************************************************************************)
LEMMA PutEnd ==
  ASSUME NEW s \in Seq(Messages), NEW m \in Messages, NEW first, NEW type,
         Framed(type, s, first), m.kind = "data" <=> Wants(type, LastOf(s, first))
  PROVE  /\ Framed(type, Append(s, m), first)
         /\ \A value :
              /\ Carries(value, s, first)
              /\ m.kind = "data" =>
                   m.bytes = value[LastOf(s, first).owner][LastOf(s, first).m_fragmentIdx]
              => Carries(value, Append(s, m), first)
         /\ LastOf(Append(s, m), first) = m
         /\ Append(s, m) \in Seq(Messages) /\ Len(Append(s, m)) = Len(s) + 1
<1>1. /\ Append(s, m) \in Seq(Messages) /\ Len(Append(s, m)) = Len(s) + 1
      /\ Append(s, m) # <<>> /\ Len(s) \in Nat
      /\ Append(s, m)[Len(s) + 1] = m
      /\ \A j \in 1 .. Len(s) : Append(s, m)[j] = s[j]
  BY AppendProperties
<1>2. LastOf(Append(s, m), first) = m
  BY <1>1 DEF LastOf
<1>3. Before(Append(s, m), first, Len(s) + 1) = LastOf(s, first)
  <2>1. CASE s = <<>>
    BY <1>1, <2>1 DEF Before, LastOf
  <2>2. CASE s # <<>>
    <3>1. Len(s) \in 1 .. Len(s)
      BY <1>1, <2>2, EmptySeq
    <3> QED
      BY <1>1, <2>2, <3>1 DEF Before, LastOf
  <2> QED
    BY <2>1, <2>2
<1>4. ASSUME NEW j \in 1 .. Len(s)
      PROVE  Append(s, m)[j] = s[j] /\ Before(Append(s, m), first, j) = Before(s, first, j)
  BY <1>1 DEF Before
<1>5. ASSUME NEW j \in 1 .. Len(Append(s, m)) PROVE j \in 1 .. Len(s) \/ j = Len(s) + 1
  BY <1>1
<1>6. Framed(type, Append(s, m), first)
  BY <1>1, <1>3, <1>4, <1>5 DEF Framed
<1>7. ASSUME NEW value, Carries(value, s, first),
             m.kind = "data" =>
               m.bytes = value[LastOf(s, first).owner][LastOf(s, first).m_fragmentIdx]
      PROVE  Carries(value, Append(s, m), first)
  BY <1>1, <1>3, <1>4, <1>5, <1>7 DEF Carries
<1> QED
  BY <1>1, <1>2, <1>6, <1>7

-----------------------------------------------------------------------------
(***************************************************************************)
(* What is read from the front of a stream is what the reader takes it     *)
(* for.                                                                    *)
(***************************************************************************)
LEMMA FrontOfReplies ==
  ASSUME TypeInv, HeaderInv, FrameInv, NEW i \in Iots, fromIot[i] # <<>>
  PROVE  /\ reactor = Select => Head(fromIot[i]) \in Headers
         /\ (reactor.at = "data" /\ reactor.iot = i) => Head(fromIot[i]) \in DataMessages
<1>1. /\ fromIot[i] \in Seq(Messages) /\ Framed("READ", fromIot[i], FirstFrom(i))
  BY DEF TypeInv, NetTypes, FrameInv, ReplyFrames
<1>2. 1 \in 1 .. Len(fromIot[i]) /\ Head(fromIot[i]) = fromIot[i][1] /\
        Head(fromIot[i]) \in Messages
  BY <1>1, HeadTailProperties
<1>3. Head(fromIot[i]).kind = "data" <=> Wants("READ", FirstFrom(i))
  BY <1>1, <1>2 DEF Framed, Before
<1>4. reactor = Select => ~Wants("READ", FirstFrom(i))
  BY DEF Select, FirstFrom, Wants, Data
<1>5. (reactor.at = "data" /\ reactor.iot = i) => Wants("READ", FirstFrom(i))
  BY DEF FirstFrom, Wants, HeaderInv, ReactorHeaders, WasSent, IsHeader, Headers
<1> QED
  BY <1>2, <1>3, <1>4, <1>5 DEF Messages, Headers, DataMessages

(***************************************************************************)
(* The same for a device, which also stores the bytes that belong to the   *)
(* header.                                                                 *)
(***************************************************************************)
LEMMA FrontOfRequests ==
  ASSUME TypeInv, HeaderInv, FrameInv, NEW i \in Iots, toIot[i] # <<>>
  PROVE  /\ iot[i].at = "header" => Head(toIot[i]) \in Headers
         /\ iot[i].at = "write" =>
              /\ Head(toIot[i]) \in DataMessages
              /\ eofReads = 0 => Head(toIot[i]).bytes
                                   = Payload(iot[i].header.owner, iot[i].header.m_fragmentIdx)
<1>1. /\ toIot[i] \in Seq(Messages) /\ Framed("WRITE", toIot[i], FirstTo(i))
      /\ eofReads = 0 => Carries(Payloads, toIot[i], FirstTo(i))
  BY DEF TypeInv, NetTypes, FrameInv, RequestFrames
<1>2. 1 \in 1 .. Len(toIot[i]) /\ Head(toIot[i]) = toIot[i][1] /\ Head(toIot[i]) \in Messages
  BY <1>1, HeadTailProperties
<1>3. Head(toIot[i]).kind = "data" <=> Wants("WRITE", FirstTo(i))
  BY <1>1, <1>2 DEF Framed, Before
<1>4. iot[i].at = "header" => ~Wants("WRITE", FirstTo(i))
  BY DEF FirstTo, Wants, Data
<1>5. iot[i].at = "write" => Wants("WRITE", FirstTo(i)) /\ FirstTo(i) = iot[i].header
  BY DEF FirstTo, Wants, HeaderInv, DeviceHeaders, IsSent, IsHeader, Headers
<1>6. iot[i].at = "write" /\ eofReads = 0 =>
        Head(toIot[i]).bytes = Payloads[iot[i].header.owner][iot[i].header.m_fragmentIdx]
  BY <1>1, <1>2, <1>3, <1>5 DEF Carries, Before
<1>7. iot[i].at = "write" =>
        iot[i].header.owner \in Handles /\ iot[i].header.m_fragmentIdx \in Nat
  BY DEF HeaderInv, DeviceHeaders, IsSent, IsHeader, Headers
<1> QED
  BY <1>2, <1>3, <1>4, <1>5, <1>6, <1>7 DEF Messages, Headers, DataMessages, Payloads

(***************************************************************************)
(* The header that a worker makes for a fragment is one, for a device that *)
(* exists.                                                                 *)
(***************************************************************************)
LEMMA MadeHeader ==
  ASSUME TypeInv, NEW h \in Handles, request[h] # Unset, Sliced(h),
         NEW k \in Nat, k < NumOf(h)
  PROVE  /\ HeaderOf(h, k) \in Headers /\ Place(h, k).iot \in Iots
         /\ HeaderOf(h, k).owner = h /\ HeaderOf(h, k).m_fragmentIdx = k
         /\ HeaderOf(h, k).m_type = request[h].type /\ HeaderOf(h, k).kind = "header"
         /\ HeaderOf(h, k).m_requestUid = m_requestUid[h]
         /\ HeaderOf(h, k).m_iotOffset = Place(h, k).offset
         /\ Place(h, k) = Home(Address(request[h], k), NumOfIots)
         /\ request[h].type \in {"READ", "WRITE"}
<1>1. request[h] \in Shapes /\ m_requestUid[h] \in Uids
  BY DEF TypeInv, KernelTypes, SlicerTypes, Sliced
<1>2. request[h].type \in {"READ", "WRITE"}
  BY <1>1, ShapeFacts DEF NumOf
<1>3. Place(h, k) = Home(Address(request[h], k), NumOfIots)
      /\ Place(h, k).iot \in Iots /\ Place(h, k).offset \in Offsets
  BY <1>1, FragmentAtHome DEF Place, NumOf
<1> QED
  BY <1>1, <1>2, <1>3 DEF HeaderOf, Header, Headers

(***************************************************************************)
(* The fragment a worker is sending.                                       *)
(***************************************************************************)
LEMMA CurrentFragment ==
  ASSUME TypeInv, ServeInv, NEW w \in Workers, Sends(w)
  PROVE  /\ held[w] \in Handles /\ request[held[w]] # Unset /\ request[held[w]] \in Shapes
         /\ Sliced(held[w]) /\ frag[w] \in Nat /\ frag[w] < NumOf(held[w])
         /\ frag[w] \in Blocks(request[held[w]])
         /\ Current(w).header = Sending(w) /\ Current(w).iot = SendingTo(w)
         /\ Current(w).bytes = buffer[held[w]][frag[w]] /\ Current(w).bytes \in Bytes
         /\ Sending(w) \in Headers /\ SendingTo(w) \in Iots
<1>1. /\ held[w] \in Handles /\ HasBuffer(held[w]) /\ Sliced(held[w])
      /\ frag[w] \in Nat /\ frag[w] < NumOf(held[w])
  BY DEF TypeInv, WorkerTypes, ServeInv, WorkersOK, Serves
<1>2. request[held[w]] # Unset /\ request[held[w]] \in Shapes
  BY <1>1 DEF TypeInv, KernelTypes, HasBuffer
<1>3. frag[w] \in Blocks(request[held[w]])
  BY <1>1, <1>2, ShapeFacts DEF NumOf
<1>4. buffer[held[w]][frag[w]] \in Bytes
  BY <1>1, <1>3 DEF HasBuffer
<1>5. Sending(w) \in Headers /\ SendingTo(w) \in Iots
  BY <1>1, <1>2, MadeHeader DEF Sending, SendingTo
<1>6. /\ Current(w).header = Sending(w) /\ Current(w).iot = SendingTo(w)
      /\ Current(w).bytes = buffer[held[w]][frag[w]]
  BY DEF Current, DeviceRequest, Sending, SendingTo, HeaderOf, Place, NumOf
<1> QED
  BY <1>1, <1>2, <1>3, <1>4, <1>5, <1>6

(***************************************************************************)
(* Splicer::Reply finds no other slicer than that of the request the reply *)
(* is for, and one that waits for a reply.                                 *)
(***************************************************************************)
LEMMA FoundSlicer ==
  ASSUME TypeInv, UidInv, NEW m, WasSent(m), m_slicerMap[m.m_requestUid] # Nobody
  PROVE  /\ m \in Headers /\ m.owner \in Handles /\ request[m.owner] # Unset =>
              request[m.owner] \in Shapes
         /\ m_slicerMap[m.m_requestUid] = m.owner
         /\ request[m.owner] # Unset =>
              /\ m_countSlices[m.owner] > 0
              /\ m.m_fragmentIdx \in Blocks(request[m.owner])
<1>1. /\ m \in Headers /\ m.owner \in Handles /\ Sliced(m.owner) /\ m.m_requestUid \in Uids
      /\ m.m_fragmentIdx \in Nat /\ m.m_fragmentIdx < NumOf(m.owner)
      /\ m.m_requestUid = m_requestUid[m.owner]
  BY DEF WasSent, IsHeader, Headers, HeaderOf, Header
<1>2. m_slicerMap[m.m_requestUid] \in Handles
  BY <1>1 DEF TypeInv, SlicerTypes
<1>3. m_slicerMap[m.m_requestUid] = m.owner
  BY <1>1, <1>2 DEF UidInv
<1>4. request[m.owner] # Unset => request[m.owner] \in Shapes
  BY <1>1 DEF TypeInv, KernelTypes
<1>5. ASSUME request[m.owner] # Unset
      PROVE  m_countSlices[m.owner] > 0 /\ m.m_fragmentIdx \in Blocks(request[m.owner])
  <2>1. request[m.owner].type # "DISC" /\ m.m_fragmentIdx \in Blocks(request[m.owner])
    BY <1>1, <1>4, <1>5, ShapeFacts DEF NumOf
  <2> QED
    BY <1>1, <1>3, <2>1 DEF UidInv
<1> QED
  BY <1>1, <1>3, <1>4, <1>5

(***************************************************************************)
(* What Splicer::Reply does with a header that names a uid and blocks.     *)
(***************************************************************************)
Finds(w, u, ks, h) ==
  /\ m_slicerMap[u] = h /\ h \in Handles /\ ks \subseteq Blocks(request[h])
  /\ CopyFragment(h, ks, task[w].bytes)
  /\ m_countSlices' = [m_countSlices EXCEPT ![h] = @ - 1]
  /\ m_slicerMap' = IF IsReplyReady(m_countSlices[h])
                      THEN [m_slicerMap EXCEPT ![u] = Nobody] ELSE m_slicerMap
  /\ held' = [held EXCEPT ![w] = h]
  /\ GoTo(w, "release")
  /\ UNCHANGED status

Strays(u, ks) ==
  /\ \/ m_slicerMap[u] = Nobody /\ status' = "null slicer"
     \/ /\ m_slicerMap[u] \in Handles /\ ~(ks \subseteq Blocks(request[m_slicerMap[u]]))
        /\ status' = "overwritten"
  /\ UNCHANGED <<buffer, m_countSlices, m_slicerMap, held, pc>>

\* A real header says its own fragment, a made-up one anything.
LEMMA ReplyDoes ==
  ASSUME TypeInv, HeaderInv, NEW w \in Workers, Reply(w)
  PROVE  \E u \in Uids, ks \in SUBSET Int :
           /\ task[w].header # MadeUp =>
                /\ WasSent(task[w].header) /\ u = task[w].header.m_requestUid
                /\ ks = {task[w].header.m_fragmentIdx}
           /\ task[w].header = MadeUp => eofReads > 0
           /\ Strays(u, ks) \/ \E h \in Handles : Finds(w, u, ks, h)
<1> DEFINE m == task[w].header
<1>1. IF m = MadeUp THEN eofReads > 0 ELSE WasSent(m)
  BY DEF Reply, HeaderInv, TaskHeaders, Known
<1>2. PICK target \in Targets(m) :
        LET h == m_slicerMap[target.uid] IN
        \/ /\ h = Nobody
           /\ status' = "null slicer"
           /\ UNCHANGED <<buffer, m_countSlices, m_slicerMap, held, pc>>
        \/ /\ h # Nobody /\ ~(target.blocks \subseteq Blocks(request[h]))
           /\ status' = "overwritten"
           /\ UNCHANGED <<buffer, m_countSlices, m_slicerMap, held, pc>>
        \/ /\ h # Nobody /\ target.blocks \subseteq Blocks(request[h])
           /\ CopyFragment(h, target.blocks, task[w].bytes)
           /\ m_countSlices' = [m_countSlices EXCEPT ![h] = @ - 1]
           /\ m_slicerMap' = IF IsReplyReady(m_countSlices[h])
                THEN [m_slicerMap EXCEPT ![target.uid] = Nobody]
                ELSE m_slicerMap
           /\ held' = [held EXCEPT ![w] = h]
           /\ GoTo(w, "release")
           /\ UNCHANGED status
  BY Zenon DEF Reply
<1>3. m # MadeUp =>
        /\ target.uid = m.m_requestUid /\ target.blocks = {m.m_fragmentIdx}
        /\ m.m_requestUid \in Uids /\ target.blocks \in SUBSET Int
  BY <1>1 DEF Targets, WasSent, IsHeader, Headers
<1>4. m = MadeUp => target.uid \in Uids /\ target.blocks \in SUBSET Int
  BY DEF Targets, Stretches
<1> DEFINE u == target.uid
           ks == target.blocks
<1>5. m_slicerMap[u] \in Handles \cup {Nobody} /\ u \in Uids
  BY <1>3, <1>4 DEF TypeInv, SlicerTypes
<1>6. Strays(u, ks) \/ \E h \in Handles : Finds(w, u, ks, h)
  BY <1>2, <1>5, Zenon DEF Strays, Finds
<1> QED
  BY <1>1, <1>3, <1>4, <1>5, <1>6

(***************************************************************************)
(* As long as no header was made up the reply is that to a header sent.    *)
(***************************************************************************)
LEMMA SentReply ==
  ASSUME TypeInv, HeaderInv, NEW w \in Workers, Reply(w), eofReads = 0,
         NEW m, m = task[w].header
  PROVE  /\ WasSent(m)
         /\ \/ Strays(m.m_requestUid, {m.m_fragmentIdx})
            \/ \E h \in Handles : Finds(w, m.m_requestUid, {m.m_fragmentIdx}, h)
<1>1. PICK u \in Uids, ks \in SUBSET Int :
        /\ m # MadeUp => WasSent(m) /\ u = m.m_requestUid /\ ks = {m.m_fragmentIdx}
        /\ m = MadeUp => eofReads > 0
        /\ Strays(u, ks) \/ \E h \in Handles : Finds(w, u, ks, h)
  BY ReplyDoes
<1>2. m # MadeUp
  BY <1>1
<1> QED
  BY <1>1, <1>2

(***************************************************************************)
(* The deleter of a request only ever ends the daemon with SIGPIPE.        *)
(***************************************************************************)
LEMMA DropStatus ==
  ASSUME NEW h, DropReference(h)
  PROVE  status' = status \/ status' = "SIGPIPE"
BY Zenon DEF DropReference

(***************************************************************************)
(* SendTo keeps the types of the streams.                                  *)
(***************************************************************************)
LEMMA SendTyped ==
  ASSUME NetTypes, NEW i \in Iots, NEW m \in Messages, SendTo(i, m)
  PROVE  /\ toIot' \in [Iots -> Seq(Messages)]
         /\ \A d \in Iots : Len(toIot'[d]) <= SocketCap
<1>1. CASE Len(toIot[i]) < SocketCap /\ toIot' = [toIot EXCEPT ![i] = Append(toIot[i], m)]
  <2>1. Append(toIot[i], m) \in Seq(Messages) /\ Len(Append(toIot[i], m)) <= SocketCap
    BY <1>1, PutOne, SocketCapAssumption DEF NetTypes
  <2> QED
    BY <1>1, <2>1 DEF NetTypes
<1> QED
  BY <1>1 DEF SendTo, NetTypes

(***************************************************************************)
(* Every step keeps the types.                                             *)
(***************************************************************************)
LEMMA TypesKept ==
  ASSUME TypeInv, ServeInv, UidInv, HeaderInv, FrameInv, [Next]_vars
  PROVE  TypeInv'
<1> USE DEF kernelVars, requestVars, reactorVars, workerVars, slicerVars, netVars, iotVars
<1>0. KernelTypes /\ ReactorTypes /\ TaskTypes /\ WorkerTypes /\ SlicerTypes /\ NetTypes /\
        DeviceTypes
  BY DEF TypeInv
<1> USE <1>0
<1>1. ASSUME NEW h \in Handles, NEW s \in Shapes, KernelSubmit(h, s) PROVE TypeInv'
  <2>1. nbdSocket' \in Seq(Handles)
    BY <1>1, PutOne DEF KernelSubmit, KernelTypes
  <2>2. KernelTypes'
    BY <1>1, <2>1 DEF KernelSubmit, KernelTypes
  <2>3. ReactorTypes' /\ TaskTypes' /\ WorkerTypes' /\ SlicerTypes' /\ NetTypes' /\ DeviceTypes'
    BY <1>1 DEF KernelSubmit, ReactorTypes, TaskTypes, WorkerTypes, SlicerTypes, NetTypes,
             DeviceTypes
  <2> QED
    BY <2>2, <2>3 DEF TypeInv
<1>2. CASE KernelShutdown
  <2>1. KernelTypes'
    <3>1. nbdUp' \in BOOLEAN
      BY <1>2, Zenon DEF KernelShutdown
    <3> QED
      BY <1>2, <3>1 DEF KernelShutdown, KernelTypes
  <2>2. ReactorTypes' /\ TaskTypes' /\ WorkerTypes' /\ SlicerTypes' /\ NetTypes' /\ DeviceTypes'
    BY <1>2 DEF KernelShutdown, ReactorTypes, TaskTypes, WorkerTypes, SlicerTypes, NetTypes,
             DeviceTypes
  <2> QED
    BY <2>1, <2>2 DEF TypeInv
<1>3. CASE ManageRequests
  <2>1. Head(nbdSocket) \in Handles /\ Tail(nbdSocket) \in Seq(Handles)
    BY <1>3, TakeOne DEF ManageRequests, KernelTypes
  <2>2. KernelTypes'
    BY <1>3, <2>1 DEF ManageRequests, KernelTypes
  <2>3. ReactorTypes'
    BY <1>3, <2>1 DEF ManageRequests, ReactorTypes, Returning, Reactors
  <2>4. TaskTypes'
    BY <1>3, <2>1 DEF ManageRequests, TaskTypes, RequestTask, RequestTasks
  <2>5. WorkerTypes' /\ SlicerTypes' /\ NetTypes' /\ DeviceTypes'
    BY <1>3 DEF ManageRequests, WorkerTypes, SlicerTypes, NetTypes, DeviceTypes
  <2> QED
    BY <2>2, <2>3, <2>4, <2>5 DEF TypeInv
<1>4. CASE ReactorReturn
  <2>1. ReactorTypes'
    BY <1>4 DEF ReactorReturn, ReactorTypes, Reactors
  <2>2. WorkerTypes'
    <3>1. status' \in {"up", "SIGPIPE"}
      BY <1>4, DropStatus DEF ReactorReturn
    <3> QED
      BY <1>4, <3>1 DEF ReactorReturn, WorkerTypes
  <2>3. KernelTypes' /\ TaskTypes' /\ SlicerTypes' /\ NetTypes' /\ DeviceTypes'
    BY <1>4 DEF ReactorReturn, KernelTypes, TaskTypes, SlicerTypes, NetTypes, DeviceTypes
  <2> QED
    BY <2>1, <2>2, <2>3 DEF TypeInv
<1>5. CASE ReactorAtEof
  <2>1. ReactorTypes'
    BY <1>5 DEF ReactorAtEof, ReactorTypes, Reactors
  <2>2. KernelTypes' /\ TaskTypes' /\ WorkerTypes' /\ SlicerTypes' /\ NetTypes' /\ DeviceTypes'
    BY <1>5 DEF ReactorAtEof, KernelTypes, TaskTypes, WorkerTypes, SlicerTypes, NetTypes,
             DeviceTypes
  <2> QED
    BY <2>1, <2>2 DEF TypeInv
<1>6. ASSUME NEW i \in Iots, ManageReplies(i) PROVE TypeInv'
  <2>1. Head(fromIot[i]) \in Headers
    BY <1>6, FrontOfReplies DEF ManageReplies
  <2>2. Tail(fromIot[i]) \in Seq(Messages) /\ Len(Tail(fromIot[i])) <= SocketCap
    BY <1>6, TakeOne, SocketCapAssumption DEF ManageReplies, NetTypes
  <2>3. ReactorTypes'
    BY <1>6, <2>1 DEF ManageReplies, ReactorTypes, ReadingData, Reactors
  <2>4. TaskTypes'
    BY <1>6, <2>1 DEF ManageReplies, TaskTypes, ReplyTask, ReplyTasks, Bytes
  <2>5. NetTypes'
    BY <1>6, <2>2 DEF ManageReplies, NetTypes
  <2>6. KernelTypes' /\ WorkerTypes' /\ SlicerTypes' /\ DeviceTypes'
    BY <1>6 DEF ManageReplies, KernelTypes, WorkerTypes, SlicerTypes, DeviceTypes
  <2> QED
    BY <2>3, <2>4, <2>5, <2>6 DEF TypeInv
<1>7. ASSUME NEW i \in Iots, ManageRepliesData(i) PROVE TypeInv'
  <2>1. reactor.header \in Headers
    BY <1>7 DEF ManageRepliesData, HeaderInv, ReactorHeaders, WasSent, IsHeader
  <2>2. fromIot[i] # <<>> => Head(fromIot[i]).bytes \in Bytes
    BY <1>7, FrontOfReplies DEF ManageRepliesData, DataMessages
  <2>3. fromIot[i] # <<>> =>
          Tail(fromIot[i]) \in Seq(Messages) /\ Len(Tail(fromIot[i])) <= SocketCap
    BY <1>7, TakeOne, SocketCapAssumption DEF NetTypes
  <2>4. ReactorTypes'
    BY <1>7 DEF ManageRepliesData, ReactorTypes, Reactors
  <2>5. TaskTypes'
    BY <1>7, <2>1, <2>2 DEF ManageRepliesData, TaskTypes, ReplyTask, ReplyTasks, Bytes
  <2>6. NetTypes'
    BY <1>7, <2>3 DEF ManageRepliesData, NetTypes
  <2>7. KernelTypes' /\ WorkerTypes' /\ SlicerTypes' /\ DeviceTypes'
    BY <1>7 DEF ManageRepliesData, KernelTypes, WorkerTypes, SlicerTypes, DeviceTypes
  <2> QED
    BY <2>4, <2>5, <2>6, <2>7 DEF TypeInv
<1>8. ASSUME NEW i \in Iots, ManageRepliesEof(i) PROVE TypeInv'
  <2>1. ReactorTypes'
    <3>1. eofReads' \in 0 .. MaxEofReads
      BY <1>8, BoundsAssumption DEF ManageRepliesEof, ReactorTypes
    <3> QED
      BY <1>8, <3>1 DEF ManageRepliesEof, ReactorTypes
  <2>2. TaskTypes'
    BY <1>8 DEF ManageRepliesEof, TaskTypes, ReplyTask, ReplyTasks, Bytes
  <2>3. WorkerTypes'
    BY <1>8 DEF ManageRepliesEof, WorkerTypes
  <2>4. KernelTypes' /\ SlicerTypes' /\ NetTypes' /\ DeviceTypes'
    BY <1>8 DEF ManageRepliesEof, KernelTypes, SlicerTypes, NetTypes, DeviceTypes
  <2> QED
    BY <2>1, <2>2, <2>3, <2>4 DEF TypeInv
<1>9. ASSUME NEW w \in Workers, Pop(w) PROVE TypeInv'
  <2>1. PICK t \in tasks : /\ tasks' = tasks \ {t} /\ task' = [task EXCEPT ![w] = t]
                             /\ IF t.kind = "request" THEN GoTo(w, "slice") /\
                                  held' = [held EXCEPT ![w] = t.h]
                                ELSE GoTo(w, "reply") /\ UNCHANGED held
    BY <1>9 DEF Pop
  <2>2. t.kind = "request" => t.h \in Handles
    BY <2>1 DEF TaskTypes, RequestTasks, ReplyTasks
  <2>3. TaskTypes'
    BY <2>1 DEF TaskTypes
  <2>4. WorkerTypes'
    BY <1>9, <2>1, <2>2 DEF Pop, WorkerTypes, GoTo, PCs
  <2>5. KernelTypes' /\ ReactorTypes' /\ SlicerTypes' /\ NetTypes' /\ DeviceTypes'
    BY <1>9 DEF Pop, KernelTypes, ReactorTypes, SlicerTypes, NetTypes, DeviceTypes
  <2> QED
    BY <2>3, <2>4, <2>5 DEF TypeInv
<1>10. ASSUME NEW w \in Workers, Slice(w) PROVE TypeInv'
  <2>1. held[w] \in Handles /\ request[held[w]] \in Shapes
    BY <1>10 DEF Slice, ServeInv, WorkersOK, Serves, HasBuffer, KernelTypes
  <2>2. NumOfFragments(request[held[w]].len) \in Int
    BY <2>1, ShapeFacts
  <2>3. (request_counter % UidSpace) \in Uids
    BY Division, UidSpaceAssumption DEF Uids, SlicerTypes
  <2>4. WorkerTypes'
    BY <1>10 DEF Slice, WorkerTypes, GoTo, PCs
  <2>5. SlicerTypes'
    <3>1. ASSUME NEW u \in Uids, NEW n \in Int,
                 m_requestUid' = [m_requestUid EXCEPT ![held[w]] = u],
                   request_counter' = request_counter + 1,
                 m_countSlices' = [m_countSlices EXCEPT ![held[w]] = n], UNCHANGED m_slicerMap
          PROVE  SlicerTypes'
      <4>1. request_counter' \in Nat
        BY <3>1 DEF SlicerTypes
      <4>2. m_requestUid' \in [Handles -> Uids \cup {Unset}]
        BY <3>1 DEF SlicerTypes
      <4>3. m_countSlices' \in [Handles -> Int]
        BY <3>1 DEF SlicerTypes
      <4> QED
        BY <3>1, <4>1, <4>2, <4>3 DEF SlicerTypes
    <3> QED
      BY <1>10, <2>2, <2>3, <3>1 DEF Slice
  <2>6. KernelTypes' /\ ReactorTypes' /\ TaskTypes' /\ NetTypes' /\ DeviceTypes'
    BY <1>10 DEF Slice, KernelTypes, ReactorTypes, TaskTypes, NetTypes, DeviceTypes
  <2> QED
    BY <2>4, <2>5, <2>6 DEF TypeInv
<1>11. ASSUME NEW w \in Workers, InsertSlicer(w) PROVE TypeInv'
  <2>1. held[w] \in Handles
    BY <1>11 DEF InsertSlicer, ServeInv, WorkersOK, Serves
  <2>2. WorkerTypes'
    <3>1. status' \in {"up", "SIGPIPE"}
      BY <1>11, DropStatus DEF InsertSlicer
    <3> QED
      BY <1>11, <3>1 DEF InsertSlicer, WorkerTypes, GoTo, PCs
  <2>3. SlicerTypes'
    BY <1>11, <2>1 DEF InsertSlicer, SlicerTypes
  <2>4. KernelTypes' /\ ReactorTypes' /\ TaskTypes' /\ NetTypes' /\ DeviceTypes'
    BY <1>11 DEF InsertSlicer, KernelTypes, ReactorTypes, TaskTypes, NetTypes, DeviceTypes
  <2> QED
    BY <2>2, <2>3, <2>4 DEF TypeInv
<1>12. ASSUME NEW w \in Workers, SenderLock(w) PROVE TypeInv'
  <2>1. WorkerTypes'
    BY <1>12 DEF SenderLock, WorkerTypes, GoTo, PCs
  <2>2. KernelTypes' /\ ReactorTypes' /\ TaskTypes' /\ SlicerTypes' /\ NetTypes' /\ DeviceTypes'
    BY <1>12 DEF SenderLock, KernelTypes, ReactorTypes, TaskTypes, SlicerTypes, NetTypes,
             DeviceTypes
  <2> QED
    BY <2>1, <2>2 DEF TypeInv
<1>13. ASSUME NEW w \in Workers, SendHeader(w) PROVE TypeInv'
  <2>1. Current(w).iot \in Iots /\ Current(w).header \in Messages
    BY <1>13, CurrentFragment DEF SendHeader, Sends, Messages
  <2>2. WorkerTypes'
    BY <1>13 DEF SendHeader, WorkerTypes, NextFragment, GoTo, PCs
  <2>3. NetTypes'
    BY <1>13, <2>1, SendTyped DEF SendHeader, NetTypes
  <2>4. KernelTypes' /\ ReactorTypes' /\ TaskTypes' /\ SlicerTypes' /\ DeviceTypes'
    BY <1>13 DEF SendHeader, KernelTypes, ReactorTypes, TaskTypes, SlicerTypes, DeviceTypes
  <2> QED
    BY <2>2, <2>3, <2>4 DEF TypeInv
<1>14. ASSUME NEW w \in Workers, SendData(w) PROVE TypeInv'
  <2>1. Current(w).iot \in Iots /\ Data(Current(w).bytes) \in Messages
    BY <1>14, CurrentFragment DEF SendData, Sends, Messages, Data, DataMessages
  <2>2. WorkerTypes'
    BY <1>14 DEF SendData, WorkerTypes, NextFragment, GoTo, PCs
  <2>3. NetTypes'
    BY <1>14, <2>1, SendTyped DEF SendData, NetTypes
  <2>4. KernelTypes' /\ ReactorTypes' /\ TaskTypes' /\ SlicerTypes' /\ DeviceTypes'
    BY <1>14 DEF SendData, KernelTypes, ReactorTypes, TaskTypes, SlicerTypes, DeviceTypes
  <2> QED
    BY <2>2, <2>3, <2>4 DEF TypeInv
<1>15. ASSUME NEW w \in Workers, SendFails(w) PROVE TypeInv'
  <2>1. WorkerTypes'
    BY <1>15 DEF SendFails, WorkerTypes
  <2>2. KernelTypes' /\ ReactorTypes' /\ TaskTypes' /\ SlicerTypes' /\ NetTypes' /\ DeviceTypes'
    BY <1>15 DEF SendFails, KernelTypes, ReactorTypes, TaskTypes, SlicerTypes, NetTypes,
             DeviceTypes
  <2> QED
    BY <2>1, <2>2 DEF TypeInv
<1>16. ASSUME NEW w \in Workers, Reply(w) PROVE TypeInv'
  <2>1. PICK u \in Uids, ks \in SUBSET Int : Strays(u, ks) \/ \E h \in Handles : Finds(w, u, ks, h)
    BY <1>16, ReplyDoes
  <2>2. ASSUME Strays(u, ks) PROVE WorkerTypes' /\ SlicerTypes'
    BY <1>16, <2>2 DEF Reply, Strays, WorkerTypes, SlicerTypes
  <2>3. ASSUME NEW h \in Handles, Finds(w, u, ks, h)
        PROVE  WorkerTypes' /\ SlicerTypes'
    <3>1. WorkerTypes'
      BY <1>16, <2>3 DEF Reply, Finds, WorkerTypes, GoTo, PCs
    <3>2. m_countSlices' \in [Handles -> Int] /\ m_slicerMap' \in [Uids -> Handles \cup {Nobody}]
      BY <2>3 DEF Finds, SlicerTypes
    <3> QED
      BY <1>16, <3>1, <3>2 DEF Reply, SlicerTypes
  <2>6. KernelTypes' /\ ReactorTypes' /\ TaskTypes' /\ NetTypes' /\ DeviceTypes'
    BY <1>16 DEF Reply, KernelTypes, ReactorTypes, TaskTypes, NetTypes, DeviceTypes
  <2> QED
    BY <2>1, <2>2, <2>3, <2>6 DEF TypeInv
<1>17. ASSUME NEW w \in Workers, Release(w) PROVE TypeInv'
  <2>1. TaskTypes'
    BY <1>17 DEF Release, TaskTypes
  <2>2. WorkerTypes'
    <3>1. status' \in {"up", "SIGPIPE"}
      BY <1>17, DropStatus DEF Release
    <3> QED
      BY <1>17, <3>1 DEF Release, WorkerTypes, GoTo, PCs
  <2>3. KernelTypes' /\ ReactorTypes' /\ SlicerTypes' /\ NetTypes' /\ DeviceTypes'
    BY <1>17 DEF Release, KernelTypes, ReactorTypes, SlicerTypes, NetTypes, DeviceTypes
  <2> QED
    BY <2>1, <2>2, <2>3 DEF TypeInv
<1>18. ASSUME NEW i \in Iots, IotReadHeader(i) PROVE TypeInv'
  <2>1. Head(toIot[i]) \in Headers
    BY <1>18, FrontOfRequests DEF IotReadHeader
  <2>2. Tail(toIot[i]) \in Seq(Messages) /\ Len(Tail(toIot[i])) <= SocketCap
    BY <1>18, TakeOne, SocketCapAssumption DEF IotReadHeader, NetTypes
  <2>3. NetTypes'
    BY <1>18, <2>2 DEF IotReadHeader, NetTypes
  <2>4. DeviceTypes'
    BY <1>18, <2>1 DEF IotReadHeader, DeviceTypes, IotAt, IotStates
  <2>5. KernelTypes' /\ ReactorTypes' /\ TaskTypes' /\ WorkerTypes' /\ SlicerTypes'
    BY <1>18 DEF IotReadHeader, iotUnchanged, KernelTypes, ReactorTypes, TaskTypes, WorkerTypes,
             SlicerTypes
  <2> QED
    BY <2>3, <2>4, <2>5 DEF TypeInv
<1>19. ASSUME NEW i \in Iots, IotWrite(i) PROVE TypeInv'
  <2>1. iot[i].header \in Headers
    BY <1>19 DEF IotWrite, HeaderInv, DeviceHeaders, IsSent, IsHeader
  <2>2. Head(toIot[i]).bytes \in Bytes
    BY <1>19, FrontOfRequests DEF IotWrite, DataMessages
  <2>3. Tail(toIot[i]) \in Seq(Messages) /\ Len(Tail(toIot[i])) <= SocketCap
    BY <1>19, TakeOne, SocketCapAssumption DEF IotWrite, NetTypes
  <2>4. NetTypes'
    BY <1>19, <2>3 DEF IotWrite, NetTypes
  <2>5. DeviceTypes'
    <3>1. iot' \in [Iots -> IotStates]
      BY <1>19, <2>1 DEF IotWrite, DeviceTypes, IotAt, IotStates
    <3>2. storage' \in [Iots -> [Offsets -> Bytes]]
      BY <1>19, <2>1, <2>2 DEF IotWrite, DeviceTypes, Headers
    <3> QED
      BY <3>1, <3>2 DEF DeviceTypes
  <2>6. KernelTypes' /\ ReactorTypes' /\ TaskTypes' /\ WorkerTypes' /\ SlicerTypes'
    BY <1>19 DEF IotWrite, iotUnchanged, KernelTypes, ReactorTypes, TaskTypes, WorkerTypes,
             SlicerTypes
  <2> QED
    BY <2>4, <2>5, <2>6 DEF TypeInv
<1>20. ASSUME NEW i \in Iots, IotSendHeader(i) PROVE TypeInv'
  <2>1. iot[i].header \in Headers
    BY <1>20 DEF IotSendHeader, HeaderInv, DeviceHeaders, WasSent, IsHeader
  <2>2. Append(fromIot[i], iot[i].header) \in Seq(Messages)
        /\ Len(Append(fromIot[i], iot[i].header)) <= SocketCap
    BY <1>20, <2>1, PutOne, SocketCapAssumption DEF IotSendHeader, NetTypes, Messages
  <2>3. NetTypes'
    BY <1>20, <2>2 DEF IotSendHeader, NetTypes
  <2>4. DeviceTypes'
    BY <1>20, <2>1 DEF IotSendHeader, DeviceTypes, IotAt, IotStates
  <2>5. KernelTypes' /\ ReactorTypes' /\ TaskTypes' /\ WorkerTypes' /\ SlicerTypes'
    BY <1>20 DEF IotSendHeader, iotUnchanged, KernelTypes, ReactorTypes, TaskTypes, WorkerTypes,
             SlicerTypes
  <2> QED
    BY <2>3, <2>4, <2>5 DEF TypeInv
<1>21. ASSUME NEW i \in Iots, IotSendData(i) PROVE TypeInv'
  <2>1. Data(storage[i][iot[i].header.m_iotOffset]) \in Messages
    <3>1. iot[i].header.m_iotOffset \in Offsets
      BY <1>21 DEF IotSendData, HeaderInv, DeviceHeaders, WasSent, IsHeader, Headers
    <3>2. storage[i][iot[i].header.m_iotOffset] \in Bytes
      BY <3>1 DEF DeviceTypes
    <3> QED
      BY <3>2 DEF Messages, Data, DataMessages
  <2>2. Append(fromIot[i], Data(storage[i][iot[i].header.m_iotOffset])) \in Seq(Messages)
        /\ Len(Append(fromIot[i], Data(storage[i][iot[i].header.m_iotOffset]))) <= SocketCap
    BY <1>21, <2>1, PutOne, SocketCapAssumption DEF IotSendData, NetTypes
  <2>3. NetTypes'
    BY <1>21, <2>2 DEF IotSendData, NetTypes
  <2>4. DeviceTypes'
    BY <1>21 DEF IotSendData, DeviceTypes, IotStates
  <2>5. KernelTypes' /\ ReactorTypes' /\ TaskTypes' /\ WorkerTypes' /\ SlicerTypes'
    BY <1>21 DEF IotSendData, iotUnchanged, KernelTypes, ReactorTypes, TaskTypes, WorkerTypes,
             SlicerTypes
  <2> QED
    BY <2>3, <2>4, <2>5 DEF TypeInv
<1>22. ASSUME NEW i \in Iots, IotFail(i) PROVE TypeInv'
  <2>1. <<>> \in Seq(Messages) /\ Len(<<>>) = 0
    BY EmptySeq
  <2>2. PICK n \in 0 .. Len(fromIot[i]) :
          fromIot' = [fromIot EXCEPT ![i] = SubSeq(fromIot[i], 1, n)]
    BY <1>22 DEF IotFail
  <2>3. SubSeq(fromIot[i], 1, n) \in Seq(Messages) /\ Len(SubSeq(fromIot[i], 1, n)) <= SocketCap
    BY CutOne, SocketCapAssumption DEF NetTypes
  <2>5. NetTypes'
    BY <1>22, <2>1, <2>2, <2>3, SocketCapAssumption DEF IotFail, NetTypes
  <2>6. DeviceTypes'
    BY <1>22 DEF IotFail, DeviceTypes, IotStates
  <2>4. KernelTypes' /\ ReactorTypes' /\ TaskTypes' /\ WorkerTypes' /\ SlicerTypes'
    BY <1>22 DEF IotFail, iotUnchanged, KernelTypes, ReactorTypes, TaskTypes, WorkerTypes,
             SlicerTypes
  <2> QED
    BY <2>4, <2>5, <2>6 DEF TypeInv
<1>23. CASE UNCHANGED vars
  BY <1>23 DEF vars, TypeInv, KernelTypes, ReactorTypes, TaskTypes, WorkerTypes, SlicerTypes,
         NetTypes, DeviceTypes
<1> QED
  BY <1>1, <1>2, <1>3, <1>4, <1>5, <1>6, <1>7, <1>8, <1>9, <1>10, <1>11, <1>12, <1>13,
     <1>14, <1>15, <1>16, <1>17, <1>18, <1>19, <1>20, <1>21, <1>22, <1>23
  DEF Next, Reactor, Worker, Iot, Stop

-----------------------------------------------------------------------------
(***************************************************************************)
(* A device that failed stays so.                                          *)
(***************************************************************************)
LEMMA BrokenStays ==
  ASSUME TypeInv, [Next]_vars, Broken
  PROVE  Broken'
<1>1. PICK d \in Iots : iot[d] = Closed
  BY DEF Broken
<1>2. iot[d].at = "closed" /\ iot \in [Iots -> IotStates]
  BY <1>1 DEF Closed, TypeInv, DeviceTypes
<1>3. ASSUME NEW i \in Iots, Iot(i) \/ IotFail(i) PROVE iot'[d] = iot[d] \/ iot'[d] = Closed
  <2>1. CASE IotFail(i)
    BY <1>2, <2>1 DEF IotFail
  <2>2. CASE Iot(i)
    <3>1. i # d
      BY <1>2, <2>2 DEF Iot, IotReadHeader, IotWrite, IotSendHeader, IotSendData
    <3> QED
      BY <1>2, <2>2, <3>1 DEF Iot, IotReadHeader, IotWrite, IotSendHeader, IotSendData
  <2> QED
    BY <1>3, <2>1, <2>2
<1>4. iot'[d] = iot[d] \/ iot'[d] = Closed
  <2> USE DEF kernelVars, requestVars, reactorVars, workerVars, slicerVars, netVars, iotVars
  <2>1. CASE Reactor
    BY <2>1 DEF Reactor, ManageRequests, ReactorReturn, ReactorAtEof, ManageReplies,
       ManageRepliesData, ManageRepliesEof
  <2>2. ASSUME NEW w \in Workers, Worker(w) PROVE iot' = iot
    BY <2>2 DEF Worker, Pop, Slice, InsertSlicer, SenderLock, SendHeader, SendData, SendFails,
       Reply, Release
  <2> QED
    BY <1>3, <2>1, <2>2 DEF Next, KernelSubmit, KernelShutdown, Stop, vars
<1> QED
  BY <1>1, <1>4 DEF Broken

(***************************************************************************)
(* A header is made up only where a device failed.                         *)
(***************************************************************************)
LEMMA MadeUpWhenBroken ==
  ASSUME TypeInv, [Next]_vars
  PROVE  /\ eofReads \in Nat /\ eofReads' \in Nat /\ eofReads' >= eofReads
         /\ eofReads' # eofReads => Broken'
<1> USE DEF kernelVars, requestVars, reactorVars, workerVars, slicerVars, netVars, iotVars,
            iotUnchanged
<1>1. eofReads \in Nat
  BY BoundsAssumption DEF TypeInv, ReactorTypes
<1>2. ASSUME NEW i \in Iots, ManageRepliesEof(i)
      PROVE  eofReads' = eofReads \/ (eofReads' = eofReads + 1 /\ Broken')
  BY <1>2 DEF ManageRepliesEof, AtEof, Broken
<1>3. (\E i \in Iots : ManageRepliesEof(i)) \/ UNCHANGED eofReads
  <2>1. ASSUME NEW w \in Workers, Worker(w) PROVE UNCHANGED eofReads
    BY <2>1 DEF Worker, Pop, Slice, InsertSlicer, SenderLock, SendHeader, SendData, SendFails,
       Reply, Release
  <2>2. ASSUME NEW i \in Iots, Iot(i) \/ IotFail(i) PROVE UNCHANGED eofReads
    BY <2>2 DEF Iot, IotReadHeader, IotWrite, IotSendHeader, IotSendData, IotFail
  <2>3. CASE Reactor
    BY <2>3 DEF Reactor, ManageRequests, ReactorReturn, ReactorAtEof, ManageReplies,
       ManageRepliesData
  <2> QED
    BY <2>1, <2>2, <2>3 DEF Next, KernelSubmit, KernelShutdown, Stop, vars
<1> QED
  BY <1>1, <1>2, <1>3

(***************************************************************************)
(* A request stays as the kernel made it, and is sliced once.              *)
(***************************************************************************)
Stays ==
  /\ \A h \in Handles : request[h] # Unset => request'[h] = request[h]
  /\ \A h \in Handles : Sliced(h) => m_requestUid'[h] = m_requestUid[h]

(***************************************************************************)
(* KernelSubmit uses a handle once, Slice is called once for a request.    *)
(***************************************************************************)
LEMMA RequestsStay ==
  ASSUME TypeInv, ServeInv, [Next]_vars
  PROVE  Stays
<1> USE DEF kernelVars, requestVars, reactorVars, workerVars, slicerVars, netVars, iotVars,
            iotUnchanged
<1> USE DEF Stays
<1>1. ASSUME NEW h \in Handles, NEW s \in Shapes, KernelSubmit(h, s) PROVE Stays
  BY <1>1 DEF KernelSubmit, TypeInv, KernelTypes
<1>2. CASE KernelShutdown
  BY <1>2 DEF KernelShutdown
<1>3. CASE ManageRequests
  BY <1>3 DEF ManageRequests
<1>4. CASE ReactorReturn
  BY <1>4 DEF ReactorReturn
<1>5. CASE ReactorAtEof
  BY <1>5 DEF ReactorAtEof
<1>6. ASSUME NEW i \in Iots, ManageReplies(i) PROVE Stays
  BY <1>6 DEF ManageReplies
<1>7. ASSUME NEW i \in Iots, ManageRepliesData(i) PROVE Stays
  BY <1>7 DEF ManageRepliesData
<1>8. ASSUME NEW i \in Iots, ManageRepliesEof(i) PROVE Stays
  BY <1>8 DEF ManageRepliesEof
<1>9. ASSUME NEW w \in Workers, Pop(w) PROVE Stays
  BY <1>9 DEF Pop
<1>10. ASSUME NEW w \in Workers, Slice(w) PROVE Stays
  <2>1. ~Sliced(held[w]) /\ held[w] \in Handles
    BY <1>10 DEF Slice, ServeInv, WorkersOK, Serves
  <2> DEFINE u == request_counter % UidSpace
  <2> HIDE DEF u
  <2>2. m_requestUid' = [m_requestUid EXCEPT ![held[w]] = u]
    BY <1>10 DEF Slice, u
  <2> QED
    BY <1>10, <2>1, <2>2 DEF Slice, TypeInv, SlicerTypes
<1>11. ASSUME NEW w \in Workers, InsertSlicer(w) PROVE Stays
  BY <1>11 DEF InsertSlicer
<1>12. ASSUME NEW w \in Workers, SenderLock(w) PROVE Stays
  BY <1>12 DEF SenderLock
<1>13. ASSUME NEW w \in Workers, SendHeader(w) PROVE Stays
  BY <1>13 DEF SendHeader
<1>14. ASSUME NEW w \in Workers, SendData(w) PROVE Stays
  BY <1>14 DEF SendData
<1>15. ASSUME NEW w \in Workers, SendFails(w) PROVE Stays
  BY <1>15 DEF SendFails
<1>16. ASSUME NEW w \in Workers, Reply(w) PROVE Stays
  BY <1>16 DEF Reply
<1>17. ASSUME NEW w \in Workers, Release(w) PROVE Stays
  BY <1>17 DEF Release
<1>18. ASSUME NEW i \in Iots, IotReadHeader(i) PROVE Stays
  BY <1>18 DEF IotReadHeader
<1>19. ASSUME NEW i \in Iots, IotWrite(i) PROVE Stays
  BY <1>19 DEF IotWrite
<1>20. ASSUME NEW i \in Iots, IotSendHeader(i) PROVE Stays
  BY <1>20 DEF IotSendHeader
<1>21. ASSUME NEW i \in Iots, IotSendData(i) PROVE Stays
  BY <1>21 DEF IotSendData
<1>22. ASSUME NEW i \in Iots, IotFail(i) PROVE Stays
  BY <1>22 DEF IotFail
<1>23. CASE UNCHANGED vars
  BY <1>23 DEF vars
<1> QED
  BY <1>1, <1>2, <1>3, <1>4, <1>5, <1>6, <1>7, <1>8, <1>9, <1>10, <1>11, <1>12, <1>13,
     <1>14, <1>15, <1>16, <1>17, <1>18, <1>19, <1>20, <1>21, <1>22, <1>23
  DEF Next, Reactor, Worker, Iot, Stop

(***************************************************************************)
(* A request keeps its buffer.                                             *)
(***************************************************************************)
LEMMA BuffersStay ==
  ASSUME TypeInv, ServeInv, HeaderInv, [Next]_vars, NEW g \in Handles, HasBuffer(g)
  PROVE  HasBuffer(g)'
<1> USE DEF kernelVars, requestVars, reactorVars, workerVars, slicerVars, netVars, iotVars,
            iotUnchanged
<1>0. request'[g] = request[g] /\ request[g] # Unset
  BY RequestsStay DEF Stays, HasBuffer
<1> USE <1>0 DEF HasBuffer
<1>1. ASSUME NEW h \in Handles, NEW s \in Shapes, KernelSubmit(h, s) PROVE HasBuffer(g)'
  BY <1>1 DEF KernelSubmit
<1>2. CASE KernelShutdown
  BY <1>2 DEF KernelShutdown
<1>3. CASE ManageRequests
  <2> DEFINE h == Head(nbdSocket)
  <2>1. h \in Handles
    BY <1>3, TakeOne DEF ManageRequests, TypeInv, KernelTypes
  <2>2. CASE g # h
    BY <1>3, <2>1, <2>2 DEF ManageRequests
  <2>3. CASE g = h
    <3>1. buffer'[g] = [k \in Blocks(request[g]) |-> IF request[g].type = "WRITE" THEN Payload(g, k) ELSE Junk]
      BY <1>3, <2>1, <2>3 DEF ManageRequests, ServeInv, BuffersOK
    <3>2. request[g] \in Shapes
      BY <1>0 DEF TypeInv, KernelTypes
    <3>3. \A k \in Blocks(request[g]) : k \in Nat
      BY <3>2, ShapeFacts
    <3>4. \A k \in Blocks(request[g]) : Payload(g, k) \in Bytes
      BY <3>3 DEF Payload, Bytes
    <3> QED
      BY <3>1, <3>4 DEF Bytes
  <2> QED
    BY <2>2, <2>3
<1>4. CASE ReactorReturn
  BY <1>4 DEF ReactorReturn
<1>5. CASE ReactorAtEof
  BY <1>5 DEF ReactorAtEof
<1>6. ASSUME NEW i \in Iots, ManageReplies(i) PROVE HasBuffer(g)'
  BY <1>6 DEF ManageReplies
<1>7. ASSUME NEW i \in Iots, ManageRepliesData(i) PROVE HasBuffer(g)'
  BY <1>7 DEF ManageRepliesData
<1>8. ASSUME NEW i \in Iots, ManageRepliesEof(i) PROVE HasBuffer(g)'
  BY <1>8 DEF ManageRepliesEof
<1>9. ASSUME NEW w \in Workers, Pop(w) PROVE HasBuffer(g)'
  BY <1>9 DEF Pop
<1>10. ASSUME NEW w \in Workers, Slice(w) PROVE HasBuffer(g)'
  BY <1>10 DEF Slice
<1>11. ASSUME NEW w \in Workers, InsertSlicer(w) PROVE HasBuffer(g)'
  BY <1>11 DEF InsertSlicer
<1>12. ASSUME NEW w \in Workers, SenderLock(w) PROVE HasBuffer(g)'
  BY <1>12 DEF SenderLock
<1>13. ASSUME NEW w \in Workers, SendHeader(w) PROVE HasBuffer(g)'
  BY <1>13 DEF SendHeader
<1>14. ASSUME NEW w \in Workers, SendData(w) PROVE HasBuffer(g)'
  BY <1>14 DEF SendData
<1>15. ASSUME NEW w \in Workers, SendFails(w) PROVE HasBuffer(g)'
  BY <1>15 DEF SendFails
<1>16. ASSUME NEW w \in Workers, Reply(w) PROVE HasBuffer(g)'
  <2>1. task[w].bytes \in Bytes
    BY <1>16 DEF Reply, ServeInv, WorkersOK, ReplyTasks
  <2>2. PICK u \in Uids, ks \in SUBSET Int : Strays(u, ks) \/ \E h \in Handles : Finds(w, u, ks, h)
    BY <1>16, ReplyDoes
  <2>3. CASE UNCHANGED buffer
    BY <2>3
  <2>4. ASSUME NEW h \in Handles, Finds(w, u, ks, h) PROVE HasBuffer(g)'
    <3>1. buffer' = [buffer EXCEPT ![h] = [k \in DOMAIN buffer[h] |->
                                              IF k \in ks THEN task[w].bytes ELSE buffer[h][k]]]
      BY <2>4 DEF Finds, CopyFragment
    <3>2. CASE h = g
      <4>1. buffer'[g] = [k \in DOMAIN buffer[g] |->
                            IF k \in ks THEN task[w].bytes ELSE buffer[g][k]]
        BY <3>1, <3>2 DEF ServeInv, BuffersOK
      <4> QED
        BY <2>1, <4>1
    <3>3. CASE h # g
      BY <3>1, <3>3 DEF ServeInv, BuffersOK
    <3> QED
      BY <3>2, <3>3
  <2> QED
    BY <2>2, <2>3, <2>4 DEF Strays
<1>17. ASSUME NEW w \in Workers, Release(w) PROVE HasBuffer(g)'
  BY <1>17 DEF Release
<1>18. ASSUME NEW i \in Iots, IotReadHeader(i) PROVE HasBuffer(g)'
  BY <1>18 DEF IotReadHeader
<1>19. ASSUME NEW i \in Iots, IotWrite(i) PROVE HasBuffer(g)'
  BY <1>19 DEF IotWrite
<1>20. ASSUME NEW i \in Iots, IotSendHeader(i) PROVE HasBuffer(g)'
  BY <1>20 DEF IotSendHeader
<1>21. ASSUME NEW i \in Iots, IotSendData(i) PROVE HasBuffer(g)'
  BY <1>21 DEF IotSendData
<1>22. ASSUME NEW i \in Iots, IotFail(i) PROVE HasBuffer(g)'
  BY <1>22 DEF IotFail
<1>23. CASE UNCHANGED vars
  BY <1>23 DEF vars
<1> QED
  BY <1>1, <1>2, <1>3, <1>4, <1>5, <1>6, <1>7, <1>8, <1>9, <1>10, <1>11, <1>12, <1>13,
     <1>14, <1>15, <1>16, <1>17, <1>18, <1>19, <1>20, <1>21, <1>22, <1>23
  DEF Next, Reactor, Worker, Iot, Stop

(***************************************************************************)
(* A worker goes on with the request it serves, or is through with it.     *)
(***************************************************************************)
Others(w) ==
  \A v \in Workers \ {w} :
    pc'[v] = pc[v] /\ held'[v] = held[v] /\ frag'[v] = frag[v] /\ task'[v] = task[v]

GoesOn(w) ==
  /\ Others(w) /\ held'[w] = held[w] /\ pc[w] # "slice" /\ Serves(w)
  /\ pc'[w] = "release" \/ (Sends(w)' /\ frag'[w] < NumOf(held[w]))
  /\ UNCHANGED <<request, nbdSocket, buffer, tasks, m_requestUid>>

\* The steps of a worker that serves a request leave it served.
LEMMA WorkerGoesOn ==
  ASSUME TypeInv, ServeInv, NEW w \in Workers,
         InsertSlicer(w) \/ SenderLock(w) \/ SendHeader(w) \/ SendData(w)
  PROVE  GoesOn(w)
<1> USE DEF kernelVars, requestVars, slicerVars
<1>1. WorkerTypes /\ TaskTypes /\ KernelTypes
  BY DEF TypeInv
<1>2. UNCHANGED <<request, nbdSocket, buffer, tasks, m_requestUid>>
  BY DEF InsertSlicer, SenderLock, SendHeader, SendData
<1>3. Others(w) /\ held'[w] = held[w]
  BY <1>1 DEF InsertSlicer, SenderLock, SendHeader, SendData, NextFragment, GoTo, Others,
              WorkerTypes, TaskTypes
<1>4. Serves(w) /\ pc[w] # "slice"
  BY DEF InsertSlicer, SenderLock, SendHeader, SendData, Serves, Sends
<1>5. held[w] \in Handles /\ HasBuffer(held[w]) /\ (Sends(w) => frag[w] < NumOf(held[w]))
  BY <1>4 DEF ServeInv, WorkersOK
<1>6. request[held[w]] \in Shapes
  BY <1>1, <1>5 DEF HasBuffer, KernelTypes
<1>7. Blocks(request[held[w]]) # {} => 0 < NumOf(held[w])
  BY <1>6, ShapeFacts DEF NumOf
<1>8. pc'[w] = "release" \/ (Sends(w)' /\ frag'[w] < NumOf(held[w]))
  <2>1. CASE InsertSlicer(w)
    BY <1>1, <1>7, <2>1 DEF InsertSlicer, GoTo, Sends, WorkerTypes
  <2>2. CASE SenderLock(w)
    BY <1>1, <1>5, <2>2 DEF SenderLock, GoTo, Sends, WorkerTypes
  <2>3. CASE SendHeader(w)
    BY <1>1, <1>5, <2>3 DEF SendHeader, NextFragment, GoTo, Sends, NumOf, WorkerTypes
  <2>4. CASE SendData(w)
    BY <1>1, <1>5, <2>4 DEF SendData, NextFragment, GoTo, Sends, NumOf, WorkerTypes
  <2> QED
    BY <2>1, <2>2, <2>3, <2>4
<1> QED
  BY <1>2, <1>3, <1>4, <1>8 DEF GoesOn

\* Such a step keeps the invariant of the requests that are served.
LEMMA GoesOnServes ==
  ASSUME TypeInv, ServeInv, NEW w \in Workers, GoesOn(w)
  PROVE  ServeInv'
<1>1. WorkersOK /\ OneServer /\ TasksOK /\ SocketOK /\ BuffersOK /\ TaskTypes
  BY DEF ServeInv, TypeInv
<1>2. \A h : /\ Sliced(h)' <=> Sliced(h)
             /\ InNbd(h)' <=> InNbd(h)
             /\ HasBuffer(h)' <=> HasBuffer(h)
             /\ NumOf(h)' = NumOf(h)
  BY DEF GoesOn, Sliced, InNbd, HasBuffer, NumOf
<1>3. \A v \in Workers : Serves(v)' => Serves(v) /\ held'[v] = held[v]
  BY DEF GoesOn, Others, Serves, Sends
<1>4. \A v \in Workers \ {w} : pc'[v] = pc[v] /\ held'[v] = held[v] /\ frag'[v] = frag[v] /\
        task'[v] = task[v]
  BY DEF GoesOn, Others
<1>5. WorkersOK'
  <2>1. ASSUME NEW v \in Workers, v # w
        PROVE  /\ Serves(v)' => held'[v] \in Handles /\ HasBuffer(held[v])'
               /\ pc'[v] = "slice" => ~Sliced(held[v])'
               /\ pc'[v] = "insert" \/ Sends(v)' => Sliced(held[v])'
               /\ Sends(v)' => frag'[v] < NumOf(held[v])'
               /\ pc'[v] = "release" => held'[v] \in Handles
               /\ pc'[v] = "reply" => task'[v] \in ReplyTasks
    <3>1. pc'[v] = pc[v] /\ held'[v] = held[v] /\ frag'[v] = frag[v] /\ task'[v] = task[v]
      BY <1>4, <2>1
    <3>2. UNCHANGED <<request, m_requestUid, buffer>>
      BY DEF GoesOn
    <3> QED
      BY <1>1, <3>1, <3>2 DEF WorkersOK, Serves, Sends, HasBuffer, Sliced, NumOf
  <2>2. /\ held'[w] \in Handles /\ HasBuffer(held[w])' /\ Sliced(held[w])'
        /\ Sends(w)' => frag'[w] < NumOf(held[w])'
        /\ pc'[w] \notin {"slice", "reply"}
    BY <1>1 DEF GoesOn, WorkersOK, Serves, Sends, HasBuffer, Sliced, NumOf
  <2> QED
    BY <2>1, <2>2 DEF WorkersOK
<1>6. OneServer'
  BY <1>1, <1>3 DEF OneServer
<1>7. \A h : Unserved(h) => Unserved(h)'
  BY <1>2, <1>3 DEF Unserved
<1>8. TasksOK' /\ SocketOK' /\ BuffersOK'
  BY <1>1, <1>2, <1>7 DEF GoesOn, TasksOK, SocketOK, BuffersOK
<1> QED
  BY <1>5, <1>6, <1>8 DEF ServeInv

(***************************************************************************)
(* Every step keeps who serves which request.                              *)
(***************************************************************************)
LEMMA ServesKept ==
  ASSUME TypeInv, ServeInv, HeaderInv, [Next]_vars
  PROVE  ServeInv'
<1> USE DEF kernelVars, requestVars, reactorVars, workerVars, slicerVars, netVars, iotVars,
            iotUnchanged
<1>0. /\ KernelTypes /\ TaskTypes /\ WorkerTypes /\ SlicerTypes
      /\ WorkersOK /\ OneServer /\ TasksOK /\ SocketOK /\ BuffersOK
  BY DEF TypeInv, ServeInv
<1> USE <1>0
<1>1. ASSUME NEW h \in Handles, NEW s \in Shapes, KernelSubmit(h, s) PROVE ServeInv'
  <2>1. ~Sliced(h) /\ ~HasBuffer(h) /\ RequestTask(h) \notin tasks /\ ~InNbd(h)
    BY <1>1 DEF KernelSubmit, BuffersOK, TasksOK, SocketOK, HasBuffer
  <2>2. \A w \in Workers : Serves(w) => held[w] # h
    BY <1>1, <2>1 DEF WorkersOK
  <2>3. \A g \in Handles : Unserved(g)' <=> Unserved(g)
    BY <1>1 DEF KernelSubmit, Unserved, Sliced, Serves, Sends
  <2>4. s # Unset
    BY NamesAssumption
  <2>5. \A g \in Handles \ {h} : HasBuffer(g)' <=> HasBuffer(g)
    BY <1>1 DEF KernelSubmit, HasBuffer, KernelTypes
  <2>6. \A w \in Workers : Serves(w) => NumOf(held[w])' = NumOf(held[w])
    BY <1>1, <2>2 DEF KernelSubmit, NumOf, KernelTypes
  <2>7. WorkersOK'
    <3>1. \A w \in Workers : Serves(w) => held[w] \in Handles \ {h}
      BY <2>2 DEF WorkersOK
    <3>2. UNCHANGED <<pc, held, frag, task, m_requestUid>>
      BY <1>1 DEF KernelSubmit
    <3>3. \A w \in Workers : Serves(w) => NumOf(held[w])' = NumOf(held[w]) /\ HasBuffer(held[w])'
      BY <2>5, <2>6, <3>1, <3>2 DEF WorkersOK
    <3> QED
      BY <3>2, <3>3 DEF WorkersOK, Serves, Sends, Sliced
  <2>8. OneServer'
    BY <1>1 DEF KernelSubmit, OneServer, Serves, Sends
  <2>9. TasksOK'
    BY <1>1, <2>1, <2>3, <2>5 DEF KernelSubmit, TasksOK
  <2>10. BuffersOK'
    BY <1>1, <2>1, <2>5 DEF KernelSubmit, BuffersOK, Sliced
  <2>11. SocketOK'
    <3>1. /\ nbdSocket' = Append(nbdSocket, h) /\ Len(nbdSocket') = Len(nbdSocket) + 1 /\
               Len(nbdSocket) \in Nat
          /\ nbdSocket'[Len(nbdSocket) + 1] = h
          /\ \A j \in 1 .. Len(nbdSocket) : nbdSocket'[j] = nbdSocket[j] /\ nbdSocket[j] # h
      BY <1>1, <2>1, PutOne DEF KernelSubmit, KernelTypes, InNbd
    <3>2. \A j \in 1 .. Len(nbdSocket') : j \in 1 .. Len(nbdSocket) \/ j = Len(nbdSocket) + 1
      BY <3>1
    <3>3. \A g \in Handles : InNbd(g)' => InNbd(g) \/ g = h
      BY <3>1, <3>2 DEF InNbd
    <3>4. \A j, k \in 1 .. Len(nbdSocket') : nbdSocket'[j] = nbdSocket'[k] => j = k
      BY <3>1, <3>2 DEF SocketOK
    <3>5. Unserved(h)
      BY <2>1, <2>2 DEF Unserved
    <3>6. \A g \in Handles : request[g] # Unset => request'[g] # Unset
      BY <1>1, <2>4 DEF KernelSubmit, KernelTypes
    <3>7. request'[h] # Unset /\ tasks' = tasks
      BY <1>1, <2>4 DEF KernelSubmit, KernelTypes
    <3> QED
      BY <2>1, <2>3, <3>3, <3>4, <3>5, <3>6, <3>7 DEF SocketOK
  <2> QED
    BY <2>7, <2>8, <2>9, <2>10, <2>11 DEF ServeInv
<1>2. CASE KernelShutdown
  BY <1>2 DEF KernelShutdown, ServeInv, WorkersOK, OneServer, TasksOK, SocketOK, BuffersOK,
            Unserved, Serves, Sends, Sliced, InNbd, NumOf, HasBuffer
<1>3. CASE ManageRequests
  <2>1. PICK h \in Handles :
        /\ h = Head(nbdSocket) /\ h = nbdSocket[1] /\ Len(nbdSocket) >= 1 /\ Len(nbdSocket) \in Nat
        /\ Len(Tail(nbdSocket)) = Len(nbdSocket) - 1
        /\ \A j \in 1 .. Len(Tail(nbdSocket)) : j + 1 \in 1 .. Len(nbdSocket) /\
             Tail(nbdSocket)[j] = nbdSocket[j + 1]
    BY <1>3, TakeOne DEF ManageRequests, KernelTypes
  <2>2. InNbd(h) /\ request[h] # Unset /\ Unserved(h)
    BY <2>1 DEF InNbd, SocketOK
  <2>3. \A g \in Handles : HasBuffer(g) => HasBuffer(g)'
    BY BuffersStay
  <2>4. HasBuffer(h)'
    <3>1. buffer'[h] = [k \in Blocks(request[h]) |-> IF request[h].type = "WRITE" THEN Payload(h, k) ELSE Junk]
      BY <1>3, <2>1 DEF ManageRequests, BuffersOK
    <3>2. request[h] \in Shapes
      BY <2>1, <2>2 DEF KernelTypes
    <3>3. \A k \in Blocks(request[h]) : k \in Nat
      BY <3>2, ShapeFacts
    <3>4. \A k \in Blocks(request[h]) : Payload(h, k) \in Bytes
      BY <2>1, <3>3 DEF Payload, Bytes
    <3>5. request' = request
      BY <1>3 DEF ManageRequests
    <3> QED
      BY <2>2, <3>1, <3>4, <3>5 DEF Bytes, HasBuffer
  <2>5. UNCHANGED <<request, pc, held, frag, task, m_requestUid>> /\ nbdSocket' = Tail(nbdSocket)
    BY <1>3 DEF ManageRequests
  <2>6. \A g : /\ Unserved(g)' <=> Unserved(g)
               /\ NumOf(g)' = NumOf(g) /\ (Sliced(g)' <=> Sliced(g))
    BY <2>5 DEF Unserved, Sliced, Serves, Sends, NumOf
  <2>7. \A g \in Handles : RequestTask(g) \in tasks' => RequestTask(g) \in tasks \/ g = h
    BY <1>3, <2>1 DEF ManageRequests, RequestTask
  <2>8. \A g \in Handles : InNbd(g)' => InNbd(g) /\ g # h
    BY <2>1, <2>5 DEF InNbd, SocketOK
  <2>9. \A j, k \in 1 .. Len(nbdSocket') : nbdSocket'[j] = nbdSocket'[k] => j = k
    <3>1. ASSUME NEW j \in 1 .. Len(nbdSocket'), NEW k \in 1 .. Len(nbdSocket'),
                 nbdSocket'[j] = nbdSocket'[k]
          PROVE  j = k
      <4>1. j + 1 \in 1 .. Len(nbdSocket) /\ k + 1 \in 1 .. Len(nbdSocket) /\
              nbdSocket[j + 1] = nbdSocket[k + 1]
        BY <2>1, <2>5, <3>1
      <4>2. j + 1 = k + 1
        BY <4>1 DEF SocketOK
      <4> QED
        BY <4>2
    <3> QED
      BY <3>1
  <2>10. WorkersOK'
    BY <2>3, <2>5, <2>6 DEF WorkersOK, Serves, Sends
  <2>11. OneServer'
    BY <2>5 DEF OneServer, Serves, Sends
  <2>12. TasksOK'
    BY <2>2, <2>3, <2>4, <2>6, <2>7 DEF TasksOK
  <2>13. SocketOK'
    BY <2>5, <2>6, <2>7, <2>8, <2>9 DEF SocketOK
  <2>14. BuffersOK'
    <3>1. buffer' = [g \in Handles |-> buffer'[g]]
      BY <1>3 DEF ManageRequests, BuffersOK
    <3> QED
      BY <2>3, <2>6, <3>1 DEF BuffersOK
  <2> QED
    BY <2>10, <2>11, <2>12, <2>13, <2>14 DEF ServeInv
<1>4. CASE ReactorReturn
  BY <1>4 DEF ReactorReturn, ServeInv, WorkersOK, OneServer, TasksOK, SocketOK, BuffersOK,
            Unserved, Serves, Sends, Sliced, InNbd, NumOf, HasBuffer
<1>5. CASE ReactorAtEof
  BY <1>5 DEF ReactorAtEof, ServeInv, WorkersOK, OneServer, TasksOK, SocketOK, BuffersOK,
            Unserved, Serves, Sends, Sliced, InNbd, NumOf, HasBuffer
<1>6. ASSUME NEW i \in Iots, ManageReplies(i) PROVE ServeInv'
  <2>1. \A h \in Handles : RequestTask(h) \in tasks' <=> RequestTask(h) \in tasks
    BY <1>6 DEF ManageReplies, RequestTask, ReplyTask
  <2> QED
    BY <1>6, <2>1 DEF ManageReplies, ServeInv, WorkersOK, OneServer, TasksOK, SocketOK, BuffersOK,
              Unserved, Serves, Sends, Sliced, InNbd, NumOf, HasBuffer
<1>7. ASSUME NEW i \in Iots, ManageRepliesData(i) PROVE ServeInv'
  <2>1. \A h \in Handles : RequestTask(h) \in tasks' <=> RequestTask(h) \in tasks
    BY <1>7 DEF ManageRepliesData, RequestTask, ReplyTask
  <2> QED
    BY <1>7, <2>1 DEF ManageRepliesData, ServeInv, WorkersOK, OneServer, TasksOK, SocketOK,
       BuffersOK,
              Unserved, Serves, Sends, Sliced, InNbd, NumOf, HasBuffer
<1>8. ASSUME NEW i \in Iots, ManageRepliesEof(i) PROVE ServeInv'
  <2>1. \A h \in Handles : RequestTask(h) \in tasks' <=> RequestTask(h) \in tasks
    BY <1>8 DEF ManageRepliesEof, RequestTask, ReplyTask
  <2> QED
    BY <1>8, <2>1 DEF ManageRepliesEof, ServeInv, WorkersOK, OneServer, TasksOK, SocketOK,
       BuffersOK,
              Unserved, Serves, Sends, Sliced, InNbd, NumOf, HasBuffer
<1>9. ASSUME NEW w \in Workers, Pop(w) PROVE ServeInv'
  <2>1. PICK t \in tasks : /\ tasks' = tasks \ {t} /\ task' = [task EXCEPT ![w] = t]
                           /\ IF t.kind = "request" THEN GoTo(w, "slice") /\
                                held' = [held EXCEPT ![w] = t.h]
                              ELSE GoTo(w, "reply") /\ UNCHANGED held
    BY <1>9 DEF Pop
  <2>2. UNCHANGED <<request, buffer, nbdSocket, frag, m_requestUid>> /\ pc[w] = "pop"
    BY <1>9 DEF Pop
  <2>3. \A g : /\ NumOf(g)' = NumOf(g) /\ (Sliced(g)' <=> Sliced(g))
               /\ (HasBuffer(g)' <=> HasBuffer(g)) /\ (InNbd(g)' <=> InNbd(g))
    BY <2>2 DEF Sliced, NumOf, HasBuffer, InNbd
  <2>4. \A v \in Workers \ {w} : pc'[v] = pc[v] /\ held'[v] = held[v] /\
          frag'[v] = frag[v] /\ task'[v] = task[v]
    BY <2>1, <2>2 DEF GoTo, WorkerTypes, TaskTypes
  <2>5. CASE t.kind = "request"
    <3>1. t.h \in Handles /\ t = RequestTask(t.h)
      BY <2>5 DEF TaskTypes, RequestTasks, ReplyTasks, RequestTask
    <3>2. HasBuffer(t.h) /\ Unserved(t.h) /\ ~InNbd(t.h)
      BY <3>1 DEF TasksOK, SocketOK
    <3>3. pc'[w] = "slice" /\ held'[w] = t.h
      BY <2>1, <2>5 DEF GoTo, WorkerTypes
    <3>4. \A v \in Workers : Serves(v)' => (v # w /\ Serves(v) /\ held'[v] = held[v]) \/
            (v = w /\ held'[v] = t.h)
      BY <2>4, <3>3 DEF Serves, Sends
    <3>5. \A g \in Handles \ {t.h} : Unserved(g) => Unserved(g)'
      BY <2>3, <3>4 DEF Unserved
    <3>6. \A g \in Handles : RequestTask(g) \in tasks' => RequestTask(g) \in tasks /\ g # t.h
      BY <2>1, <3>1 DEF RequestTask
    <3>7. WorkersOK'
      <4>1. held'[w] \in Handles /\ HasBuffer(held[w])' /\ ~Sliced(held[w])'
        BY <2>3, <3>1, <3>2, <3>3 DEF Unserved, Sliced, HasBuffer
      <4>2. ~Sends(w)'
        BY <3>3 DEF Sends
      <4> QED
        BY <2>2, <2>4, <3>3, <4>1, <4>2 DEF WorkersOK, Serves, Sends, HasBuffer, Sliced, NumOf
    <3>8. OneServer'
      BY <3>2, <3>4 DEF OneServer, Unserved
    <3>9. TasksOK'
      BY <2>3, <3>5, <3>6 DEF TasksOK
    <3>10. SocketOK'
      BY <2>2, <2>3, <3>2, <3>5, <3>6 DEF SocketOK
    <3>11. BuffersOK'
      BY <2>2, <2>3 DEF BuffersOK
    <3> QED
      BY <3>7, <3>8, <3>9, <3>10, <3>11 DEF ServeInv
  <2>6. CASE t.kind # "request"
    <3>1. t \in ReplyTasks
      BY <2>6 DEF TaskTypes, RequestTasks, ReplyTasks
    <3>2. pc'[w] = "reply" /\ task'[w] = t /\ held' = held
      BY <2>1, <2>6 DEF GoTo, WorkerTypes, TaskTypes
    <3>3. \A v \in Workers : Serves(v)' => Serves(v) /\ held'[v] = held[v]
      BY <2>4, <3>2 DEF Serves, Sends
    <3>4. \A g \in Handles : Unserved(g) => Unserved(g)'
      BY <2>3, <3>3 DEF Unserved
    <3>5. WorkersOK'
      BY <2>2, <2>4, <3>1, <3>2 DEF WorkersOK, Serves, Sends, HasBuffer, Sliced, NumOf
    <3>6. OneServer'
      BY <3>3 DEF OneServer
    <3>7. TasksOK' /\ SocketOK' /\ BuffersOK'
      BY <2>1, <2>2, <2>3, <3>4 DEF TasksOK, SocketOK, BuffersOK
    <3> QED
      BY <3>5, <3>6, <3>7 DEF ServeInv
  <2> QED
    BY <2>5, <2>6
<1>10. ASSUME NEW w \in Workers, Slice(w) PROVE ServeInv'
  <2>1. held[w] \in Handles /\ HasBuffer(held[w]) /\ Serves(w) /\ pc[w] = "slice"
    BY <1>10 DEF Slice, WorkersOK, Serves
  <2>2. UNCHANGED <<request, buffer, nbdSocket, frag, held, task, tasks>> /\
          pc' = [pc EXCEPT ![w] = "insert"]
    BY <1>10 DEF Slice, GoTo
  <2>3. m_requestUid'[held[w]] # Unset /\
          \A g \in Handles \ {held[w]} : m_requestUid'[g] = m_requestUid[g]
    <3>1. (request_counter % UidSpace) \in 0 .. (UidSpace - 1)
      BY Division, UidSpaceAssumption DEF SlicerTypes
    <3> DEFINE u == request_counter % UidSpace
    <3>2. u # Unset /\ m_requestUid' = [m_requestUid EXCEPT ![held[w]] = u]
      BY <1>10, <3>1, NamesAssumption DEF Slice
    <3> HIDE DEF u
    <3> QED
      BY <2>1, <3>2 DEF SlicerTypes
  <2>4. \A g : NumOf(g)' = NumOf(g) /\ (HasBuffer(g)' <=> HasBuffer(g)) /\ (InNbd(g)' <=> InNbd(g))
    BY <2>2 DEF NumOf, HasBuffer, InNbd
  <2>5. Sliced(held[w])' /\ \A g \in Handles \ {held[w]} : Sliced(g)' <=> Sliced(g)
    BY <2>2, <2>3 DEF Sliced
  <2>6. pc'[w] = "insert" /\ \A v \in Workers : Serves(v)' <=> Serves(v)
    BY <2>1, <2>2 DEF Serves, Sends, WorkerTypes
  <2>7. \A v \in Workers \ {w} : Serves(v) => held[v] # held[w]
    BY <2>1 DEF OneServer
  <2>8. \A g \in Handles : Unserved(g) => g # held[w] /\ Unserved(g)'
    BY <2>1, <2>2, <2>5, <2>6 DEF Unserved
  <2>9. WorkersOK'
    <3>1. \A v \in Workers \ {w} : Serves(v) => held[v] \in Handles \ {held[w]}
      BY <2>7 DEF WorkersOK
    <3>2. \A v \in Workers \ {w} : pc'[v] = pc[v] /\ (Sends(v)' <=> Sends(v)) /\
            (Serves(v)' <=> Serves(v))
      BY <2>2 DEF Sends, Serves, WorkerTypes
    <3>3. \A v \in Workers \ {w} : Serves(v) => (Sliced(held[v])' <=> Sliced(held[v]))
      BY <2>2, <2>5, <3>1
    <3>4. \A v \in Workers : /\ pc[v] = "slice" \/ pc[v] = "insert" \/ Sends(v) => Serves(v)
      BY DEF Serves
    <3>5. ~Sends(w)'
      BY <2>6 DEF Sends
    <3> QED
      BY <2>1, <2>2, <2>4, <2>5, <2>6, <3>2, <3>3, <3>4, <3>5 DEF WorkersOK
  <2>10. OneServer'
    BY <2>2, <2>6 DEF OneServer
  <2>11. TasksOK' /\ SocketOK'
    BY <2>2, <2>4, <2>8 DEF TasksOK, SocketOK
  <2>12. BuffersOK'
    BY <2>1, <2>2, <2>4, <2>5 DEF BuffersOK
  <2> QED
    BY <2>9, <2>10, <2>11, <2>12 DEF ServeInv
<1>11. ASSUME NEW w \in Workers, InsertSlicer(w) PROVE ServeInv'
  BY <1>11, WorkerGoesOn, GoesOnServes
<1>12. ASSUME NEW w \in Workers, SenderLock(w) PROVE ServeInv'
  BY <1>12, WorkerGoesOn, GoesOnServes
<1>13. ASSUME NEW w \in Workers, SendHeader(w) PROVE ServeInv'
  BY <1>13, WorkerGoesOn, GoesOnServes
<1>14. ASSUME NEW w \in Workers, SendData(w) PROVE ServeInv'
  BY <1>14, WorkerGoesOn, GoesOnServes
<1>15. ASSUME NEW w \in Workers, SendFails(w) PROVE ServeInv'
  BY <1>15 DEF SendFails, ServeInv, WorkersOK, OneServer, TasksOK, SocketOK, BuffersOK,
            Unserved, Serves, Sends, Sliced, InNbd, NumOf, HasBuffer
<1>16. ASSUME NEW w \in Workers, Reply(w) PROVE ServeInv'
  <2>1. UNCHANGED <<request, nbdSocket, frag, tasks, task, m_requestUid>> /\ pc[w] = "reply"
    BY <1>16 DEF Reply
  <2>2. /\ \A v \in Workers \ {w} : pc'[v] = pc[v] /\ held'[v] = held[v]
        /\ (pc'[w] = "release" /\ held'[w] \in Handles) \/ (pc'[w] = pc[w] /\ held'[w] = held[w])
    <3>1. PICK u \in Uids, ks \in SUBSET Int : Strays(u, ks) \/ \E h \in Handles : Finds(w, u, ks, h)
      BY <1>16, ReplyDoes
    <3> QED
      BY <3>1 DEF Strays, Finds, GoTo, WorkerTypes
  <2>3. \A v \in Workers : Serves(v)' => Serves(v) /\ held'[v] = held[v]
    BY <2>1, <2>2 DEF Serves, Sends
  <2>4. \A g : NumOf(g)' = NumOf(g) /\ (Sliced(g)' <=> Sliced(g)) /\ (InNbd(g)' <=> InNbd(g))
    BY <2>1 DEF NumOf, Sliced, InNbd
  <2>5. \A g \in Handles : HasBuffer(g) => HasBuffer(g)'
    BY BuffersStay
  <2>6. \A g \in Handles : Unserved(g) => Unserved(g)'
    BY <2>3, <2>4 DEF Unserved
  <2>7. WorkersOK'
    BY <2>1, <2>2, <2>4, <2>5 DEF WorkersOK, Serves, Sends
  <2>8. OneServer'
    BY <2>3 DEF OneServer
  <2>9. TasksOK' /\ SocketOK'
    BY <2>1, <2>4, <2>5, <2>6 DEF TasksOK, SocketOK
  <2>10. BuffersOK'
    <3>1. buffer' = [g \in Handles |-> buffer'[g]]
      <4>1. \/ buffer' = buffer
            \/ \E h, b : buffer' = [buffer EXCEPT ![h] = b]
        BY <1>16, ReplyDoes DEF Strays, Finds, CopyFragment
      <4> QED
        BY <4>1 DEF BuffersOK
    <3> QED
      BY <2>4, <2>5, <3>1 DEF BuffersOK
  <2> QED
    BY <2>7, <2>8, <2>9, <2>10 DEF ServeInv
<1>17. ASSUME NEW w \in Workers, Release(w) PROVE ServeInv'
  <2>1. UNCHANGED <<request, nbdSocket, frag, tasks, m_requestUid, buffer>>
    BY <1>17 DEF Release
  <2>2. /\ \A v \in Workers \ {w} : pc'[v] = pc[v] /\ held'[v] = held[v] /\ task'[v] = task[v]
        /\ pc'[w] = "pop" /\ held'[w] = Nobody
    BY <1>17 DEF Release, GoTo, WorkerTypes, TaskTypes
  <2>3. \A v \in Workers : Serves(v)' => Serves(v) /\ held'[v] = held[v]
    BY <2>1, <2>2 DEF Serves, Sends
  <2>4. \A g : NumOf(g)' = NumOf(g) /\ (Sliced(g)' <=> Sliced(g)) /\ (InNbd(g)' <=> InNbd(g))
    BY <2>1 DEF NumOf, Sliced, InNbd
  <2>5. \A g \in Handles : HasBuffer(g) => HasBuffer(g)'
    BY BuffersStay
  <2>6. \A g \in Handles : Unserved(g) => Unserved(g)'
    BY <2>3, <2>4 DEF Unserved
  <2>7. WorkersOK'
    BY <2>1, <2>2, <2>4, <2>5 DEF WorkersOK, Serves, Sends
  <2>8. OneServer'
    BY <2>3 DEF OneServer
  <2>9. TasksOK' /\ SocketOK'
    BY <2>1, <2>4, <2>5, <2>6 DEF TasksOK, SocketOK
  <2>10. BuffersOK'
    <3>1. buffer' = [g \in Handles |-> buffer'[g]]
      BY <2>1 DEF BuffersOK
    <3> QED
      BY <2>4, <2>5, <3>1 DEF BuffersOK
  <2> QED
    BY <2>7, <2>8, <2>9, <2>10 DEF ServeInv
<1>18. ASSUME NEW i \in Iots, IotReadHeader(i) PROVE ServeInv'
  BY <1>18 DEF IotReadHeader, ServeInv, WorkersOK, OneServer, TasksOK, SocketOK, BuffersOK,
            Unserved, Serves, Sends, Sliced, InNbd, NumOf, HasBuffer
<1>19. ASSUME NEW i \in Iots, IotWrite(i) PROVE ServeInv'
  BY <1>19 DEF IotWrite, ServeInv, WorkersOK, OneServer, TasksOK, SocketOK, BuffersOK,
            Unserved, Serves, Sends, Sliced, InNbd, NumOf, HasBuffer
<1>20. ASSUME NEW i \in Iots, IotSendHeader(i) PROVE ServeInv'
  BY <1>20 DEF IotSendHeader, ServeInv, WorkersOK, OneServer, TasksOK, SocketOK, BuffersOK,
            Unserved, Serves, Sends, Sliced, InNbd, NumOf, HasBuffer
<1>21. ASSUME NEW i \in Iots, IotSendData(i) PROVE ServeInv'
  BY <1>21 DEF IotSendData, ServeInv, WorkersOK, OneServer, TasksOK, SocketOK, BuffersOK,
            Unserved, Serves, Sends, Sliced, InNbd, NumOf, HasBuffer
<1>22. ASSUME NEW i \in Iots, IotFail(i) PROVE ServeInv'
  BY <1>22 DEF IotFail, ServeInv, WorkersOK, OneServer, TasksOK, SocketOK, BuffersOK,
            Unserved, Serves, Sends, Sliced, InNbd, NumOf, HasBuffer
<1>23. CASE UNCHANGED vars
  BY <1>23 DEF vars, ServeInv, WorkersOK, OneServer, TasksOK, SocketOK, BuffersOK,
            Unserved, Serves, Sends, Sliced, InNbd, NumOf, HasBuffer
<1> QED
  BY <1>1, <1>2, <1>3, <1>4, <1>5, <1>6, <1>7, <1>8, <1>9, <1>10, <1>11, <1>12, <1>13,
     <1>14, <1>15, <1>16, <1>17, <1>18, <1>19, <1>20, <1>21, <1>22, <1>23
  DEF Next, Reactor, Worker, Iot, Stop

(***************************************************************************)
(* Every step keeps the uids different, until they wrap.                   *)
(***************************************************************************)
LEMMA UidsKept ==
  ASSUME TypeInv, ServeInv, HeaderInv, UidInv, UidsLast', [Next]_vars
  PROVE  UidInv'
<1> USE DEF kernelVars, requestVars, reactorVars, workerVars, slicerVars, netVars, iotVars,
            iotUnchanged
<1>0. KernelTypes /\ WorkerTypes /\ SlicerTypes /\ WorkersOK /\ OneServer /\ BuffersOK
  BY DEF TypeInv, ServeInv
<1> USE <1>0
<1>1. ASSUME NEW h \in Handles, NEW s \in Shapes, KernelSubmit(h, s) PROVE UidInv'
  <2>1. UNCHANGED <<m_requestUid, m_slicerMap, m_countSlices, request_counter, pc, held>>
    BY <1>1 DEF KernelSubmit
  <2>2. \A g \in Handles : Sliced(g) => request'[g] = request[g]
    BY <1>1 DEF KernelSubmit, KernelTypes, BuffersOK, HasBuffer
  <2>3. \A g \in Handles : (Sliced(g)' <=> Sliced(g)) /\ (Sliced(g) => NumOf(g)' = NumOf(g))
    BY <2>1, <2>2 DEF Sliced, NumOf
  <2>4. \A u \in Uids : m_slicerMap[u] # Nobody =>
          request'[m_slicerMap[u]] = request[m_slicerMap[u]]
    <3>1. \A u \in Uids : m_slicerMap[u] # Nobody => m_slicerMap[u] \in Handles /\
            Sliced(m_slicerMap[u])
      BY NamesAssumption DEF UidInv, SlicerTypes, Sliced, Uids
    <3> QED
      BY <2>2, <3>1
  <2>5. \A w \in Workers : pc[w] = "insert" => held[w] \in Handles /\ Sliced(held[w])
    BY DEF WorkersOK, Serves
  <2> QED
    BY <2>1, <2>3, <2>4, <2>5 DEF UidInv
<1>2. CASE KernelShutdown
  BY <1>2 DEF KernelShutdown, UidInv, Sliced, NumOf
<1>3. CASE ManageRequests
  BY <1>3 DEF ManageRequests, UidInv, Sliced, NumOf
<1>4. CASE ReactorReturn
  BY <1>4 DEF ReactorReturn, UidInv, Sliced, NumOf
<1>5. CASE ReactorAtEof
  BY <1>5 DEF ReactorAtEof, UidInv, Sliced, NumOf
<1>6. ASSUME NEW i \in Iots, ManageReplies(i) PROVE UidInv'
  BY <1>6 DEF ManageReplies, UidInv, Sliced, NumOf
<1>7. ASSUME NEW i \in Iots, ManageRepliesData(i) PROVE UidInv'
  BY <1>7 DEF ManageRepliesData, UidInv, Sliced, NumOf
<1>8. ASSUME NEW i \in Iots, ManageRepliesEof(i) PROVE UidInv'
  BY <1>8 DEF ManageRepliesEof, UidInv, Sliced, NumOf
<1>9. ASSUME NEW w \in Workers, Pop(w) PROVE UidInv'
  <2>1. UNCHANGED <<request, m_requestUid, m_slicerMap, m_countSlices, request_counter>>
    BY <1>9 DEF Pop
  <2>2. \A v \in Workers : pc'[v] = "insert" => pc[v] = "insert" /\ held'[v] = held[v]
    BY <1>9 DEF Pop, GoTo, NextFragment, WorkerTypes
  <2> QED
    BY <2>1, <2>2 DEF UidInv, Sliced, NumOf
<1>10. ASSUME NEW w \in Workers, Slice(w) PROVE UidInv'
  <2>1. /\ held[w] \in Handles /\ ~Sliced(held[w]) /\ Serves(w) /\ request[held[w]] \in Shapes
    BY <1>10 DEF Slice, WorkersOK, Serves, HasBuffer, KernelTypes
  <2>2. request_counter \in Nat /\ request_counter < UidSpace /\
          request_counter' = request_counter + 1
    BY <1>10, UidSpaceAssumption DEF Slice, UidsLast, SlicerTypes
  <2>3. (request_counter % UidSpace) = request_counter
    <3>1. request_counter = (UidSpace * 0) + request_counter
      BY <2>2, UidSpaceAssumption
    <3> QED
      BY <2>2, <3>1, DivisionUnique, UidSpaceAssumption
  <2>4. request_counter \in Uids /\ request_counter # Unset
    BY <2>2, NamesAssumption, UidSpaceAssumption DEF Uids
  <2>5. m_requestUid' = [m_requestUid EXCEPT ![held[w]] = request_counter]
    BY <1>10, <2>3 DEF Slice
  <2>6. /\ m_requestUid'[held[w]] = request_counter
        /\ \A g \in Handles \ {held[w]} : m_requestUid'[g] = m_requestUid[g]
    BY <2>1, <2>5 DEF SlicerTypes
  <2>7. /\ UNCHANGED <<request, held, m_slicerMap>>
        /\ \A v \in Workers \ {w} : pc'[v] = pc[v]
        /\ m_countSlices'[held[w]] = NumOf(held[w]) /\
             \A g \in Handles \ {held[w]} : m_countSlices'[g] = m_countSlices[g]
    BY <1>10, <2>1 DEF Slice, GoTo, WorkerTypes, SlicerTypes, NumOf
  <2>8. \A g \in Handles : m_requestUid[g] # Unset => m_requestUid[g] < request_counter /\
          m_requestUid[g] \in Nat
    BY UidSpaceAssumption DEF UidInv, Sliced, SlicerTypes, Uids
  <2>9. \A u \in Uids : m_slicerMap[u] # Nobody => /\ m_slicerMap[u] \in Handles \ {held[w]} /\ u # request_counter
                                               /\ m_requestUid[m_slicerMap[u]] = u
    BY <2>1, <2>8, NamesAssumption DEF UidInv, SlicerTypes, Sliced, Uids
  <2>10. \A h \in Handles : Sliced(h)' => m_requestUid'[h] < request_counter'
    BY <2>2, <2>6, <2>8 DEF Sliced
  <2>11. \A g, h \in Handles : Sliced(h)' /\ m_requestUid'[g] = m_requestUid'[h] => g = h
    <3>1. \A g \in Handles \ {held[w]} : m_requestUid'[g] # request_counter
      BY <2>2, <2>4, <2>6, <2>8
    <3> QED
      BY <2>6, <3>1 DEF UidInv, Sliced
  <2>12. \A u \in Uids : m_slicerMap'[u] # Nobody =>
           /\ m_requestUid'[m_slicerMap'[u]] = u
           /\ request'[m_slicerMap'[u]].type = "DISC" \/ m_countSlices'[m_slicerMap'[u]] > 0
    BY <2>6, <2>7, <2>9 DEF UidInv
  <2>13. \A v \in Workers : pc'[v] = "insert" =>
           m_slicerMap'[m_requestUid'[held'[v]]] = Nobody /\
             m_countSlices'[held'[v]] = NumOf(held[v])'
    <3>1. \A v \in Workers \ {w} : pc[v] = "insert" => held[v] \in Handles \ {held[w]}
      BY <2>1 DEF WorkersOK, OneServer, Serves
    <3>2. \A h : NumOf(h)' = NumOf(h)
      BY <2>7 DEF NumOf
    <3>3. ASSUME NEW v \in Workers, v # w, pc'[v] = "insert"
          PROVE  m_slicerMap'[m_requestUid'[held'[v]]] = Nobody /\
                   m_countSlices'[held'[v]] = NumOf(held[v])'
      BY <2>6, <2>7, <3>1, <3>2, <3>3 DEF UidInv, NumOf
    <3>4. m_slicerMap'[m_requestUid'[held'[w]]] = Nobody /\
            m_countSlices'[held'[w]] = NumOf(held[w])'
      BY <2>4, <2>6, <2>7, <2>9 DEF NumOf
    <3> QED
      BY <3>3, <3>4
  <2> QED
    BY <2>10, <2>11, <2>12, <2>13 DEF UidInv
<1>11. ASSUME NEW w \in Workers, InsertSlicer(w) PROVE UidInv'
  <2>1. /\ held[w] \in Handles /\ Sliced(held[w]) /\ Serves(w) /\
             request[held[w]] \in Shapes /\ pc[w] = "insert"
        /\ m_requestUid[held[w]] \in Uids
    BY <1>11 DEF InsertSlicer, WorkersOK, Serves, HasBuffer, KernelTypes, SlicerTypes, Sliced
  <2>2. m_countSlices[held[w]] \in Nat /\
          (request[held[w]].type = "DISC" \/ m_countSlices[held[w]] > 0)
    BY <2>1, ShapeFacts DEF UidInv, NumOf
  <2>3. /\ UNCHANGED <<request, held, m_requestUid, m_countSlices, request_counter>>
        /\ \A v \in Workers : pc'[v] = "insert" => pc[v] = "insert" /\ v # w
        /\ m_slicerMap' = [m_slicerMap EXCEPT ![m_requestUid[held[w]]] = held[w]]
    BY <1>11 DEF InsertSlicer, GoTo, WorkerTypes
  <2>4. \A v \in Workers : pc'[v] = "insert" => /\ pc[v] = "insert" /\ held[v] \in Handles
                                              /\ m_requestUid[held[v]] \in Uids \ {m_requestUid[held[w]]}
    <3>1. \A v \in Workers : pc[v] = "insert" /\ v # w => held[v] \in Handles \ {held[w]} /\
            Sliced(held[v])
      BY <2>1 DEF WorkersOK, OneServer, Serves
    <3> QED
      BY <2>1, <2>3, <3>1 DEF UidInv, SlicerTypes, Sliced
  <2>5. \A u \in Uids : m_slicerMap'[u] = IF u = m_requestUid[held[w]] THEN held[w] ELSE m_slicerMap[u]
    BY <2>1, <2>3 DEF SlicerTypes
  <2>6. \A u \in Uids : m_slicerMap'[u] # Nobody =>
          /\ m_requestUid'[m_slicerMap'[u]] = u
          /\ request'[m_slicerMap'[u]].type = "DISC" \/ m_countSlices'[m_slicerMap'[u]] > 0
    BY <2>1, <2>2, <2>3, <2>5 DEF UidInv
  <2>7. \A v \in Workers : pc'[v] = "insert" =>
          m_slicerMap'[m_requestUid'[held'[v]]] = Nobody /\
            m_countSlices'[held'[v]] = NumOf(held[v])'
    BY <2>3, <2>4, <2>5 DEF UidInv, NumOf
  <2> QED
    BY <2>3, <2>6, <2>7 DEF UidInv, Sliced
<1>12. ASSUME NEW w \in Workers, SenderLock(w) PROVE UidInv'
  <2>1. UNCHANGED <<request, m_requestUid, m_slicerMap, m_countSlices, request_counter>>
    BY <1>12 DEF SenderLock
  <2>2. \A v \in Workers : pc'[v] = "insert" => pc[v] = "insert" /\ held'[v] = held[v]
    BY <1>12 DEF SenderLock, GoTo, NextFragment, WorkerTypes
  <2> QED
    BY <2>1, <2>2 DEF UidInv, Sliced, NumOf
<1>13. ASSUME NEW w \in Workers, SendHeader(w) PROVE UidInv'
  <2>1. UNCHANGED <<request, m_requestUid, m_slicerMap, m_countSlices, request_counter>>
    BY <1>13 DEF SendHeader
  <2>2. \A v \in Workers : pc'[v] = "insert" => pc[v] = "insert" /\ held'[v] = held[v]
    BY <1>13 DEF SendHeader, GoTo, NextFragment, WorkerTypes
  <2> QED
    BY <2>1, <2>2 DEF UidInv, Sliced, NumOf
<1>14. ASSUME NEW w \in Workers, SendData(w) PROVE UidInv'
  <2>1. UNCHANGED <<request, m_requestUid, m_slicerMap, m_countSlices, request_counter>>
    BY <1>14 DEF SendData
  <2>2. \A v \in Workers : pc'[v] = "insert" => pc[v] = "insert" /\ held'[v] = held[v]
    BY <1>14 DEF SendData, GoTo, NextFragment, WorkerTypes
  <2> QED
    BY <2>1, <2>2 DEF UidInv, Sliced, NumOf
<1>15. ASSUME NEW w \in Workers, SendFails(w) PROVE UidInv'
  BY <1>15 DEF SendFails, UidInv, Sliced, NumOf
<1>16. ASSUME NEW w \in Workers, Reply(w) PROVE UidInv'
  <2>1. UNCHANGED <<request, m_requestUid, request_counter>> /\ pc[w] = "reply"
    BY <1>16 DEF Reply
  <2>2. PICK u \in Uids, ks \in SUBSET Int : Strays(u, ks) \/ \E h \in Handles : Finds(w, u, ks, h)
    BY <1>16, ReplyDoes
  <2>3. \A v \in Workers : pc'[v] = "insert" => pc[v] = "insert" /\ held'[v] = held[v] /\ v # w
    BY <2>1, <2>2 DEF Strays, Finds, GoTo, WorkerTypes
  <2>5. CASE Strays(u, ks)
    BY <2>1, <2>5 DEF Strays, UidInv, Sliced, NumOf
  <2>6. ASSUME NEW h \in Handles, Finds(w, u, ks, h) PROVE UidInv'
    <3>3. /\ m_slicerMap[u] = h /\ m_requestUid[h] = u /\ m_countSlices[h] \in Int
          /\ request[h].type = "DISC" \/ m_countSlices[h] > 0
      BY <2>6, NamesAssumption DEF Finds, UidInv, SlicerTypes
    <3>4. /\ m_countSlices' = [m_countSlices EXCEPT ![h] = m_countSlices[h] - 1]
          /\ m_slicerMap' = IF m_countSlices[h] - 1 = 0 THEN [m_slicerMap EXCEPT ![u] = Nobody] ELSE m_slicerMap
      BY <2>6 DEF Finds, IsReplyReady
    <3>5. m_countSlices'[h] = m_countSlices[h] - 1 /\
            \A g \in Handles \ {h} : m_countSlices'[g] = m_countSlices[g]
      BY <3>4 DEF SlicerTypes
    <3>6. \A t \in Uids : m_slicerMap'[t] = IF t = u /\
            m_countSlices'[h] = 0 THEN Nobody ELSE m_slicerMap[t]
      BY <3>4, <3>5 DEF SlicerTypes
    <3>7. \A t \in Uids : m_slicerMap[t] = h => t = u
      BY <3>3, NamesAssumption DEF UidInv
    <3>8. \A t \in Uids : m_slicerMap'[t] # Nobody =>
            /\ m_requestUid'[m_slicerMap'[t]] = t
            /\ request'[m_slicerMap'[t]].type = "DISC" \/ m_countSlices'[m_slicerMap'[t]] > 0
      <4>1. ASSUME NEW t \in Uids, m_slicerMap'[t] # Nobody
            PROVE  /\ m_requestUid'[m_slicerMap'[t]] = t
                   /\ request'[m_slicerMap'[t]].type = "DISC" \/ m_countSlices'[m_slicerMap'[t]] > 0
        <5>1. m_slicerMap'[t] = m_slicerMap[t] /\ m_slicerMap[t] \in Handles
          BY <3>6, <4>1 DEF SlicerTypes
        <5>2. CASE m_slicerMap[t] = h
          <6>1. m_countSlices'[h] # 0
            BY <3>6, <3>7, <4>1, <5>2
          <6> QED
            BY <2>1, <3>3, <3>5, <3>7, <5>1, <5>2, <6>1
        <5>3. CASE m_slicerMap[t] # h
          BY <2>1, <3>5, <5>1, <5>3, <4>1 DEF UidInv
        <5> QED
          BY <5>2, <5>3
      <4> QED
        BY <4>1
    <3>9. \A v \in Workers : pc'[v] = "insert" =>
            m_slicerMap'[m_requestUid'[held'[v]]] = Nobody /\
              m_countSlices'[held'[v]] = NumOf(held[v])'
      <4>1. ASSUME NEW v \in Workers, pc'[v] = "insert"
            PROVE  m_slicerMap'[m_requestUid'[held'[v]]] = Nobody /\
                     m_countSlices'[held'[v]] = NumOf(held[v])'
        <5>1. pc[v] = "insert" /\ held'[v] = held[v] /\ held[v] \in Handles /\ Sliced(held[v])
          BY <2>3, <4>1 DEF WorkersOK, Serves
        <5>2. m_requestUid[held[v]] \in Uids /\ m_slicerMap[m_requestUid[held[v]]] = Nobody
          BY <5>1 DEF UidInv, SlicerTypes, Sliced
        <5>3. held[v] # h
          BY <3>3, <5>2, NamesAssumption
        <5> QED
          BY <2>1, <3>5, <3>6, <5>1, <5>2, <5>3 DEF UidInv, NumOf
      <4> QED
        BY <4>1
    <3> QED
      BY <2>1, <3>8, <3>9 DEF UidInv, Sliced
  <2> QED
    BY <2>2, <2>5, <2>6
<1>17. ASSUME NEW w \in Workers, Release(w) PROVE UidInv'
  <2>1. UNCHANGED <<request, m_requestUid, m_slicerMap, m_countSlices, request_counter>>
    BY <1>17 DEF Release
  <2>2. \A v \in Workers : pc'[v] = "insert" => pc[v] = "insert" /\ held'[v] = held[v]
    BY <1>17 DEF Release, GoTo, NextFragment, WorkerTypes
  <2> QED
    BY <2>1, <2>2 DEF UidInv, Sliced, NumOf
<1>18. ASSUME NEW i \in Iots, IotReadHeader(i) PROVE UidInv'
  BY <1>18 DEF IotReadHeader, UidInv, Sliced, NumOf
<1>19. ASSUME NEW i \in Iots, IotWrite(i) PROVE UidInv'
  BY <1>19 DEF IotWrite, UidInv, Sliced, NumOf
<1>20. ASSUME NEW i \in Iots, IotSendHeader(i) PROVE UidInv'
  BY <1>20 DEF IotSendHeader, UidInv, Sliced, NumOf
<1>21. ASSUME NEW i \in Iots, IotSendData(i) PROVE UidInv'
  BY <1>21 DEF IotSendData, UidInv, Sliced, NumOf
<1>22. ASSUME NEW i \in Iots, IotFail(i) PROVE UidInv'
  BY <1>22 DEF IotFail, UidInv, Sliced, NumOf
<1>23. CASE UNCHANGED vars
  BY <1>23 DEF vars, UidInv, Sliced, NumOf
<1> QED
  BY <1>1, <1>2, <1>3, <1>4, <1>5, <1>6, <1>7, <1>8, <1>9, <1>10, <1>11, <1>12, <1>13,
     <1>14, <1>15, <1>16, <1>17, <1>18, <1>19, <1>20, <1>21, <1>22, <1>23
  DEF Next, Reactor, Worker, Iot, Stop

(***************************************************************************)
(* A worker that serves a request after a step served it before, and is no *)
(* less far; or it takes up one that is not sliced.                        *)
(***************************************************************************)
Further(w) ==
  \/ /\ Serves(w) /\ held'[w] = held[w]
     /\ Sends(w) => Sends(w)' /\ frag'[w] >= frag[w]
     /\ pc[w] = "sendData" =>
          frag'[w] > frag[w] \/ (pc'[w] = "sendData" /\ frag'[w] = frag[w])
  \/ held'[w] \in Handles /\ ~Sliced(held'[w]) /\ RequestTask(held'[w]) \in tasks

(***************************************************************************)
(* No step takes a worker back.                                            *)
(***************************************************************************)
LEMMA ServersGetFurther ==
  ASSUME TypeInv, ServeInv, [Next]_vars, NEW v \in Workers, Serves(v)'
  PROVE  Further(v)
<1> USE DEF kernelVars, requestVars, reactorVars, workerVars, slicerVars, netVars, iotVars,
            iotUnchanged
<1>0. WorkerTypes /\ TaskTypes /\ WorkersOK /\ TasksOK
  BY DEF TypeInv, ServeInv
<1>00. pc \in [Workers -> PCs] /\ held \in [Workers -> Handles \cup {Nobody}] /\
         frag \in [Workers -> Nat]
  BY <1>0 DEF WorkerTypes
<1> USE <1>0, <1>00 DEF Further
<1>1. ASSUME NEW h \in Handles, NEW s \in Shapes, KernelSubmit(h, s) PROVE Further(v)
  BY <1>1 DEF KernelSubmit, Serves, Sends
<1>2. CASE KernelShutdown
  BY <1>2 DEF KernelShutdown, Serves, Sends
<1>3. CASE ManageRequests
  BY <1>3 DEF ManageRequests, Serves, Sends
<1>4. CASE ReactorReturn
  BY <1>4 DEF ReactorReturn, Serves, Sends
<1>5. CASE ReactorAtEof
  BY <1>5 DEF ReactorAtEof, Serves, Sends
<1>6. ASSUME NEW i \in Iots, ManageReplies(i) PROVE Further(v)
  BY <1>6 DEF ManageReplies, Serves, Sends
<1>7. ASSUME NEW i \in Iots, ManageRepliesData(i) PROVE Further(v)
  BY <1>7 DEF ManageRepliesData, Serves, Sends
<1>8. ASSUME NEW i \in Iots, ManageRepliesEof(i) PROVE Further(v)
  BY <1>8 DEF ManageRepliesEof, Serves, Sends
<1>9. ASSUME NEW w \in Workers, Pop(w) PROVE Further(v)
  <2>1. PICK t \in tasks : /\ tasks' = tasks \ {t} /\ task' = [task EXCEPT ![w] = t]
                           /\ IF t.kind = "request" THEN GoTo(w, "slice") /\
                                held' = [held EXCEPT ![w] = t.h]
                              ELSE GoTo(w, "reply") /\ UNCHANGED held
    BY <1>9 DEF Pop
  <2>2. v # w => pc'[v] = pc[v] /\ held'[v] = held[v] /\ frag'[v] = frag[v]
    BY <1>9, <2>1 DEF Pop, GoTo
  <2>3. CASE v = w
    <3>1. t.kind = "request" /\ held'[v] = t.h
      BY <2>1, <2>3 DEF GoTo, Serves, Sends
    <3>2. t.h \in Handles /\ t = RequestTask(t.h)
      BY <2>1, <3>1 DEF TaskTypes, RequestTasks, ReplyTasks, RequestTask
    <3>3. ~Sliced(t.h)
      BY <2>1, <3>2 DEF TasksOK, Unserved
    <3> QED
      BY <3>1, <3>2, <3>3
  <2> QED
    BY <2>2, <2>3 DEF Serves, Sends
<1>10. ASSUME NEW w \in Workers, Slice(w) PROVE Further(v)
  <2>1. v # w => pc'[v] = pc[v] /\ held'[v] = held[v] /\ frag'[v] = frag[v]
    BY <1>10 DEF Slice, GoTo, NextFragment
  <2>2. CASE v = w
    BY <1>10, <2>2 DEF Slice, GoTo, NextFragment, Serves, Sends
  <2> QED
    BY <2>1, <2>2 DEF Serves, Sends
<1>11. ASSUME NEW w \in Workers, InsertSlicer(w) PROVE Further(v)
  <2>1. v # w => pc'[v] = pc[v] /\ held'[v] = held[v] /\ frag'[v] = frag[v]
    BY <1>11 DEF InsertSlicer, GoTo, NextFragment
  <2>2. CASE v = w
    BY <1>11, <2>2 DEF InsertSlicer, GoTo, NextFragment, Serves, Sends
  <2> QED
    BY <2>1, <2>2 DEF Serves, Sends
<1>12. ASSUME NEW w \in Workers, SenderLock(w) PROVE Further(v)
  <2>1. v # w => pc'[v] = pc[v] /\ held'[v] = held[v] /\ frag'[v] = frag[v]
    BY <1>12 DEF SenderLock, GoTo, NextFragment
  <2>2. CASE v = w
    BY <1>12, <2>2 DEF SenderLock, GoTo, NextFragment, Serves, Sends
  <2> QED
    BY <2>1, <2>2 DEF Serves, Sends
<1>13. ASSUME NEW w \in Workers, SendHeader(w) PROVE Further(v)
  <2>1. v # w => pc'[v] = pc[v] /\ held'[v] = held[v] /\ frag'[v] = frag[v]
    BY <1>13 DEF SendHeader, GoTo, NextFragment
  <2>2. CASE v = w
    BY <1>13, <2>2 DEF SendHeader, GoTo, NextFragment, Serves, Sends
  <2> QED
    BY <2>1, <2>2 DEF Serves, Sends
<1>14. ASSUME NEW w \in Workers, SendData(w) PROVE Further(v)
  <2>1. v # w => pc'[v] = pc[v] /\ held'[v] = held[v] /\ frag'[v] = frag[v]
    BY <1>14 DEF SendData, GoTo, NextFragment
  <2>2. CASE v = w
    BY <1>14, <2>2 DEF SendData, GoTo, NextFragment, Serves, Sends
  <2> QED
    BY <2>1, <2>2 DEF Serves, Sends
<1>15. ASSUME NEW w \in Workers, SendFails(w) PROVE Further(v)
  BY <1>15 DEF SendFails, Serves, Sends
<1>16. ASSUME NEW w \in Workers, Reply(w) PROVE Further(v)
  <2>1. v # w => pc'[v] = pc[v] /\ held'[v] = held[v] /\ frag'[v] = frag[v]
    BY <1>16 DEF Reply, GoTo, NextFragment
  <2>2. CASE v = w
    BY <1>16, <2>2 DEF Reply, GoTo, NextFragment, Serves, Sends
  <2> QED
    BY <2>1, <2>2 DEF Serves, Sends
<1>17. ASSUME NEW w \in Workers, Release(w) PROVE Further(v)
  <2>1. v # w => pc'[v] = pc[v] /\ held'[v] = held[v] /\ frag'[v] = frag[v]
    BY <1>17 DEF Release, GoTo, NextFragment
  <2>2. CASE v = w
    BY <1>17, <2>2 DEF Release, GoTo, NextFragment, Serves, Sends
  <2> QED
    BY <2>1, <2>2 DEF Serves, Sends
<1>18. ASSUME NEW i \in Iots, IotReadHeader(i) PROVE Further(v)
  BY <1>18 DEF IotReadHeader, Serves, Sends
<1>19. ASSUME NEW i \in Iots, IotWrite(i) PROVE Further(v)
  BY <1>19 DEF IotWrite, Serves, Sends
<1>20. ASSUME NEW i \in Iots, IotSendHeader(i) PROVE Further(v)
  BY <1>20 DEF IotSendHeader, Serves, Sends
<1>21. ASSUME NEW i \in Iots, IotSendData(i) PROVE Further(v)
  BY <1>21 DEF IotSendData, Serves, Sends
<1>22. ASSUME NEW i \in Iots, IotFail(i) PROVE Further(v)
  BY <1>22 DEF IotFail, Serves, Sends
<1>23. CASE UNCHANGED vars
  BY <1>23 DEF vars, Serves, Sends
<1> QED
  BY <1>1, <1>2, <1>3, <1>4, <1>5, <1>6, <1>7, <1>8, <1>9, <1>10, <1>11, <1>12, <1>13,
     <1>14, <1>15, <1>16, <1>17, <1>18, <1>19, <1>20, <1>21, <1>22, <1>23
  DEF Next, Reactor, Worker, Iot, Stop

(***************************************************************************)
(* A header stays one, and what was sent stays sent.                       *)
(***************************************************************************)
LEMMA SentStays ==
  ASSUME TypeInv, ServeInv, TypeInv', [Next]_vars, NEW m, IsHeader(m)
  PROVE  /\ IsHeader(m)' /\ HomeOf(m)' = HomeOf(m)
         /\ WasSent(m) => WasSent(m)'
         /\ IsSent(m) => IsSent(m)'
<1>1. /\ m \in Headers /\ m.owner \in Handles /\ m.m_fragmentIdx \in Nat /\ Sliced(m.owner)
      /\ m.m_fragmentIdx < NumOf(m.owner) /\ m = HeaderOf(m.owner, m.m_fragmentIdx)
  BY DEF IsHeader, Headers
<1>2. PICK h \in Handles, k \in Nat : h = m.owner /\ k = m.m_fragmentIdx
  BY <1>1
<1>3. request'[h] = request[h] /\ m_requestUid'[h] = m_requestUid[h]
  BY <1>1, <1>2, RequestsStay DEF Stays, ServeInv, BuffersOK, HasBuffer
<1>4. /\ NumOf(h)' = NumOf(h) /\ Place(h, k)' = Place(h, k) /\ HeaderOf(h, k)' = HeaderOf(h, k)
      /\ Sliced(h)'
  BY <1>1, <1>2, <1>3 DEF NumOf, Place, HeaderOf, Sliced
<1>5. IsHeader(m)' /\ HomeOf(m)' = HomeOf(m)
  BY <1>1, <1>2, <1>4 DEF IsHeader, HomeOf
<1>6. frag \in [Workers -> Nat] /\ pc \in [Workers -> PCs]
  BY DEF TypeInv, WorkerTypes
<1>7. ASSUME NEW w \in Workers, Serves(w)', held'[w] = h
      PROVE  /\ Serves(w) /\ held[w] = h
             /\ Sends(w) => Sends(w)' /\ frag'[w] >= frag[w]
             /\ pc[w] = "sendData" =>
                  frag'[w] > frag[w] \/ (pc'[w] = "sendData" /\ frag'[w] = frag[w])
  BY <1>1, <1>2, <1>7, ServersGetFurther DEF Further
<1>8. frag' \in [Workers -> Nat]
  BY DEF TypeInv, WorkerTypes
<1>9. ASSUME WasSent(m) PROVE WasSent(m)'
  <2>1. ASSUME NEW w \in Workers, Serves(w)', held'[w] = h PROVE k < NextFrag(w)'
    <3>1. k < NextFrag(w)
      BY <1>2, <1>7, <1>9, <2>1 DEF WasSent
    <3>2. Sends(w) /\ k < frag[w]
      BY <1>2, <3>1 DEF NextFrag
    <3>3. Sends(w)' /\ frag'[w] >= frag[w] /\ frag'[w] \in Nat
      BY <1>7, <2>1, <3>2, <1>8
    <3> QED
      BY <1>6, <3>2, <3>3 DEF NextFrag
  <2> QED
    BY <1>2, <1>5, <2>1 DEF WasSent
<1>10. ASSUME IsSent(m) PROVE IsSent(m)'
  <2>1. ASSUME NEW w \in Workers, Serves(w)', held'[w] = h
        PROVE  k < NextFrag(w)' \/ (pc'[w] = "sendData" /\ k = frag'[w])
    <3>1. k < NextFrag(w) \/ (pc[w] = "sendData" /\ k = frag[w])
      BY <1>2, <1>7, <1>10, <2>1 DEF IsSent
    <3>2. Sends(w) /\ frag[w] \in Nat /\ (k < frag[w] \/ (pc[w] = "sendData" /\ k = frag[w]))
      BY <1>2, <1>6, <3>1 DEF NextFrag, Sends
    <3>3. Sends(w)' /\ frag'[w] >= frag[w] /\ frag'[w] \in Nat
      BY <1>7, <2>1, <3>2, <1>8
    <3>4. NextFrag(w)' = frag'[w]
      BY <3>3 DEF NextFrag
    <3> QED
      BY <1>7, <2>1, <3>2, <3>3, <3>4
  <2> QED
    BY <1>2, <1>5, <2>1 DEF IsSent
<1> QED
  BY <1>5, <1>9, <1>10

(***************************************************************************)
(* What is on a stream after its front was taken, or something was put at  *)
(* its end.                                                                *)
(***************************************************************************)
TookFrom(f, i, g) ==
  f \in [Iots -> Seq(Messages)] /\ i \in Iots /\ f[i] # <<>> /\ g = [f EXCEPT ![i] = Tail(f[i])]
PutTo(f, i, m, g) ==
  /\ f \in [Iots -> Seq(Messages)] /\ i \in Iots /\ m \in Messages
  /\ g = [f EXCEPT ![i] = Append(f[i], m)] \/ g = f

\* What is on a connection after a message was taken was there before.
LEMMA AllFromTail ==
  ASSUME NEW f, NEW i, NEW g, TookFrom(f, i, g)
  PROVE  \A d \in Iots : \A j \in 1 .. Len(g[d]) :
           \E k \in 1 .. Len(f[d]) : g[d][j] = f[d][k]
<1>1. \A j \in 1 .. Len(Tail(f[i])) : j + 1 \in 1 .. Len(f[i]) /\ Tail(f[i])[j] = f[i][j + 1]
  BY TakeOne DEF TookFrom
<1>2. \A d \in Iots : g[d] = IF d = i THEN Tail(f[i]) ELSE f[d]
  BY DEF TookFrom
<1> QED
  BY <1>1, <1>2

\* What is on a connection after a send was there before or was sent.
LEMMA AllFromAppend ==
  ASSUME NEW f, NEW i, NEW m, NEW g, PutTo(f, i, m, g)
  PROVE  \A d \in Iots : \A j \in 1 .. Len(g[d]) :
           (d = i /\ g[d][j] = m) \/ \E k \in 1 .. Len(f[d]) : g[d][j] = f[d][k]
<1>1. CASE g = f
  BY <1>1
<1>2. CASE g = [f EXCEPT ![i] = Append(f[i], m)]
  <2>1. /\ Len(Append(f[i], m)) = Len(f[i]) + 1 /\ Len(f[i]) \in Nat
        /\ Append(f[i], m)[Len(f[i]) + 1] = m
        /\ \A j \in 1 .. Len(f[i]) : Append(f[i], m)[j] = f[i][j]
    BY PutOne DEF PutTo
  <2>2. \A j \in 1 .. Len(Append(f[i], m)) : j \in 1 .. Len(f[i]) \/ j = Len(f[i]) + 1
    BY <2>1
  <2>3. \A d \in Iots : g[d] = IF d = i THEN Append(f[i], m) ELSE f[d]
    BY <1>2 DEF PutTo
  <2> QED
    BY <2>1, <2>2, <2>3
<1> QED
  BY <1>1, <1>2 DEF PutTo

(***************************************************************************)
(* A READ has no data to send: its header was sent once it is sent.        *)
(***************************************************************************)
LEMMA ReadWasSent ==
  ASSUME FrameInv, NEW m, IsSent(m), m.m_type = "READ"
  PROVE  WasSent(m)
<1>1. m.m_type = request[m.owner].type
  BY DEF IsSent, IsHeader, HeaderOf, Header
<1>2. \A w \in Workers : pc[w] = "sendData" => request[held[w]].type = "WRITE"
  BY DEF FrameInv, SendersOK
<1> QED
  BY <1>1, <1>2 DEF IsSent, WasSent

(***************************************************************************)
(* Once a device has the data of a WRITE its worker has gone on.           *)
(***************************************************************************)
LEMMA DataWasSent ==
  ASSUME TypeInv, ServeInv, HeaderInv, FrameInv, OnceInv, NEW i \in Iots,
         iot[i].at = "write", toIot[i] # <<>>
  PROVE  WasSent(iot[i].header)
<1> DEFINE m == iot[i].header
           s == toIot[i]
<1>1. IsSent(m) /\ HomeOf(m) = i /\ m.kind = "header" /\ m.m_type = "WRITE" /\ iot[i] # Closed
  BY DEF HeaderInv, DeviceHeaders, IsSent, IsHeader, Headers, Closed
<1>2. s \in Seq(Messages) /\ Len(s) \in 1 .. Len(s)
  BY TakeOne DEF TypeInv, NetTypes
<1>3. LastOf(s, FirstTo(i)) = s[Len(s)] /\ s[Len(s)] # m
  BY <1>2 DEF LastOf, OnceInv
<1>4. ASSUME NEW w \in Workers, pc[w] = "sendData", held[w] = m.owner, frag[w] = m.m_fragmentIdx
      PROVE  FALSE
  <2>1. Sending(w) = m /\ SendingTo(w) = i
    BY <1>1, <1>4 DEF Sending, SendingTo, IsSent, IsHeader, HomeOf
  <2> QED
    BY <1>1, <1>3, <1>4, <2>1 DEF FrameInv, SendersOK
<1> QED
  BY <1>1, <1>4 DEF IsSent, WasSent

(***************************************************************************)
(* The header a worker sends is that of a fragment that was sent after.    *)
(***************************************************************************)
LEMMA SendingIsSent ==
  ASSUME TypeInv, ServeInv, TypeInv', ServeInv', [Next]_vars, NEW w \in Workers, SendHeader(w),
         NEW m, m = Sending(w), NEW d, d = SendingTo(w)
  PROVE  IsSent(m)' /\ HomeOf(m)' = d
<1>1. /\ held[w] \in Handles /\ request[held[w]] # Unset /\ Sliced(held[w])
      /\ frag[w] \in Nat /\ frag[w] < NumOf(held[w]) /\ m \in Headers
  BY CurrentFragment DEF SendHeader, Sends
<1>2. m.owner = held[w] /\ m.m_fragmentIdx = frag[w] /\ m.kind = "header"
  BY <1>1, MadeHeader DEF Sending
<1>3. IsHeader(m) /\ HomeOf(m) = d
  BY <1>1, <1>2 DEF IsHeader, HomeOf, Sending, SendingTo
<1>4. IsHeader(m)' /\ HomeOf(m)' = d
  BY <1>3, SentStays
<1>5. /\ held' = held
      /\ \/ pc'[w] = "sendData" /\ frag'[w] = frag[w]
         \/ pc'[w] \in {"send", "release"} /\ frag'[w] = frag[w] + 1
  <2>1. pc \in [Workers -> PCs] /\ frag \in [Workers -> Nat]
    BY DEF TypeInv, WorkerTypes
  <2> QED
    BY <2>1 DEF SendHeader, NextFragment, GoTo
<1>6. ASSUME NEW v \in Workers, Serves(v)', held'[v] = m.owner
      PROVE  m.m_fragmentIdx < NextFrag(v)' \/ (pc'[v] = "sendData" /\ m.m_fragmentIdx = frag'[v])
  <2>1. Serves(v) /\ Serves(w)
    BY <1>6 DEF SendHeader, NextFragment, GoTo, Serves, Sends, TypeInv, WorkerTypes
  <2>2. v = w
    BY <1>2, <1>5, <1>6, <2>1 DEF ServeInv, OneServer
  <2> QED
    BY <1>1, <1>2, <1>5, <1>6, <2>2 DEF NextFrag, Serves, Sends
<1> QED
  BY <1>4, <1>6 DEF IsSent

(***************************************************************************)
(* Every step keeps it that what is taken for the header of a fragment is  *)
(* one, of a fragment that was sent and at the device it was sent to.      *)
(***************************************************************************)
LEMMA HeadersKept ==
  ASSUME TypeInv, ServeInv, HeaderInv, FrameInv, OnceInv, TypeInv', ServeInv', [Next]_vars
  PROVE  HeaderInv'
<1> USE DEF kernelVars, requestVars, reactorVars, workerVars, slicerVars, netVars, iotVars,
            iotUnchanged
<1>0. /\ TaskTypes /\ WorkerTypes /\ NetTypes /\ DeviceTypes
      /\ RequestHeaders /\ ReplyHeaders /\ DeviceHeaders /\ ReactorHeaders /\ TaskHeaders
  BY DEF TypeInv, HeaderInv
<1>91. \A m : WasSent(m) => WasSent(m)' /\ HomeOf(m)' = HomeOf(m)
  BY SentStays DEF WasSent
<1>92. \A m : IsSent(m) => IsSent(m)' /\ HomeOf(m)' = HomeOf(m)
  BY SentStays DEF IsSent
<1>93. /\ \A m : Known(m) => Known(m)'
       /\ \A m : WasSent(m) => Known(m)
  <2>1. eofReads > 0 => eofReads' > 0
    BY MadeUpWhenBroken
  <2>2. \A m : WasSent(m) => m # MadeUp
    BY DEF WasSent, IsHeader, Headers, MadeUp
  <2> QED
    BY <1>91, <2>1, <2>2 DEF Known
<1>94. eofReads' > 0 => Broken'
  BY <1>0, MadeUpWhenBroken, BrokenStays DEF ReactorHeaders
<1> USE <1>0, <1>93, <1>94
<1>1. ASSUME NEW h \in Handles, NEW s \in Shapes, KernelSubmit(h, s) PROVE HeaderInv'
  <2>1. RequestHeaders' /\ ReplyHeaders' /\ DeviceHeaders' /\ ReactorHeaders' /\ TaskHeaders'
    BY <1>1, <1>91, <1>92 DEF KernelSubmit, RequestHeaders, ReplyHeaders, DeviceHeaders,
             ReactorHeaders, TaskHeaders
  <2> QED
    BY <2>1 DEF HeaderInv
<1>2. CASE KernelShutdown
  <2>1. RequestHeaders' /\ ReplyHeaders' /\ DeviceHeaders' /\ ReactorHeaders' /\ TaskHeaders'
    BY <1>2, <1>91, <1>92 DEF KernelShutdown, RequestHeaders, ReplyHeaders, DeviceHeaders,
             ReactorHeaders, TaskHeaders
  <2> QED
    BY <2>1 DEF HeaderInv
<1>3. CASE ManageRequests
  <2>1. ReactorHeaders'
    BY <1>3, <1>91 DEF ManageRequests, Returning, ReactorHeaders
  <2>2. TaskHeaders'
    BY <1>3, <1>91 DEF ManageRequests, RequestTask, TaskHeaders
  <2>3. RequestHeaders' /\ ReplyHeaders' /\ DeviceHeaders'
    BY <1>3, <1>91, <1>92 DEF ManageRequests, RequestHeaders, ReplyHeaders, DeviceHeaders
  <2> QED
    BY <2>1, <2>2, <2>3 DEF HeaderInv
<1>4. CASE ReactorReturn
  <2>1. ReactorHeaders'
    BY <1>4, <1>91 DEF ReactorReturn, Select, ReactorHeaders
  <2>2. RequestHeaders' /\ ReplyHeaders' /\ DeviceHeaders' /\ TaskHeaders'
    BY <1>4, <1>91, <1>92 DEF ReactorReturn, RequestHeaders, ReplyHeaders, DeviceHeaders,
             TaskHeaders
  <2> QED
    BY <2>1, <2>2 DEF HeaderInv
<1>5. CASE ReactorAtEof
  <2>1. ReactorHeaders'
    BY <1>5, <1>91 DEF ReactorAtEof, Spinning, ReactorHeaders
  <2>2. RequestHeaders' /\ ReplyHeaders' /\ DeviceHeaders' /\ TaskHeaders'
    BY <1>5, <1>91, <1>92 DEF ReactorAtEof, RequestHeaders, ReplyHeaders, DeviceHeaders,
             TaskHeaders
  <2> QED
    BY <2>1, <2>2 DEF HeaderInv
<1>6. ASSUME NEW i \in Iots, ManageReplies(i) PROVE HeaderInv'
  <2>1. Head(fromIot[i]) \in Headers /\ Head(fromIot[i]).kind = "header"
    BY <1>6, FrontOfReplies DEF ManageReplies, Headers
  <2>2. WasSent(Head(fromIot[i])) /\ HomeOf(Head(fromIot[i])) = i
    <3>1. Head(fromIot[i]) = fromIot[i][1] /\ 1 \in 1 .. Len(fromIot[i])
      BY <1>6, TakeOne DEF ManageReplies, NetTypes
    <3> QED
      BY <2>1, <3>1 DEF ReplyHeaders
  <2>3. \A d \in Iots : \A j \in 1 .. Len(fromIot'[d]) :
          \E k \in 1 .. Len(fromIot[d]) : fromIot'[d][j] = fromIot[d][k]
    <3>1. TookFrom(fromIot, i, fromIot')
      BY <1>6 DEF ManageReplies, NetTypes, TookFrom
    <3> QED
      BY <3>1, AllFromTail
  <2>4. ReplyHeaders'
    BY <2>3, <1>91 DEF ReplyHeaders
  <2>5. ReactorHeaders'
    BY <1>6, <1>91, <2>1, <2>2 DEF ManageReplies, ReadingData, ReactorHeaders
  <2>6. TaskHeaders'
    BY <1>6, <1>91, <2>1, <2>2 DEF ManageReplies, ReplyTask, TaskHeaders
  <2>7. RequestHeaders' /\ DeviceHeaders'
    BY <1>6, <1>91, <1>92 DEF ManageReplies, RequestHeaders, DeviceHeaders
  <2> QED
    BY <2>4, <2>5, <2>6, <2>7 DEF HeaderInv
<1>7. ASSUME NEW i \in Iots, ManageRepliesData(i) PROVE HeaderInv'
  <2>1. ReplyHeaders'
    <3>1. CASE fromIot' = fromIot
      BY <3>1, <1>91 DEF ReplyHeaders
    <3>2. CASE fromIot[i] # <<>> /\ fromIot' = [fromIot EXCEPT ![i] = Tail(fromIot[i])]
      <4>1. \A d \in Iots : \A j \in 1 .. Len(fromIot'[d]) :
              \E k \in 1 .. Len(fromIot[d]) : fromIot'[d][j] = fromIot[d][k]
        <5>1. TookFrom(fromIot, i, fromIot')
          BY <3>2 DEF NetTypes, TookFrom
        <5> QED
          BY <5>1, AllFromTail
      <4> QED
        BY <4>1, <1>91 DEF ReplyHeaders
    <3> QED
      BY <1>7, <3>1, <3>2 DEF ManageRepliesData
  <2>2. ReactorHeaders'
    BY <1>7, <1>91 DEF ManageRepliesData, Select, ReactorHeaders
  <2>3. TaskHeaders'
    BY <1>7, <1>91 DEF ManageRepliesData, ReplyTask, TaskHeaders, ReactorHeaders
  <2>4. RequestHeaders' /\ DeviceHeaders'
    BY <1>7, <1>91, <1>92 DEF ManageRepliesData, RequestHeaders, DeviceHeaders
  <2> QED
    BY <2>1, <2>2, <2>3, <2>4 DEF HeaderInv
<1>8. ASSUME NEW i \in Iots, ManageRepliesEof(i) PROVE HeaderInv'
  <2>1. TaskHeaders'
    <3>1. eofReads' # eofReads => Known(MadeUp)'
      BY MadeUpWhenBroken DEF Known
    <3> QED
      BY <1>8, <3>1, MadeUpWhenBroken DEF ManageRepliesEof, ReplyTask, TaskHeaders
  <2>2. RequestHeaders' /\ ReplyHeaders' /\ DeviceHeaders' /\ ReactorHeaders'
    BY <1>8, <1>91, <1>92 DEF ManageRepliesEof, RequestHeaders, ReplyHeaders, DeviceHeaders,
             ReactorHeaders
  <2> QED
    BY <2>1, <2>2 DEF HeaderInv
<1>9. ASSUME NEW w \in Workers, Pop(w) PROVE HeaderInv'
  <2>1. tasks' \subseteq tasks
    BY <1>9 DEF Pop
  <2>2. \A v \in Workers : pc'[v] = "reply" =>
          (pc[v] = "reply" /\ task'[v] = task[v]) \/ (task'[v] \in tasks /\ task'[v].kind = "reply")
    <3>1. \A t \in tasks : t.kind # "request" => t.kind = "reply"
      BY DEF TaskTypes, RequestTasks, ReplyTasks
    <3> QED
      BY <1>9, <3>1 DEF Pop, GoTo, WorkerTypes, TaskTypes
  <2>3. TaskHeaders'
    BY <2>1, <2>2, <1>91 DEF TaskHeaders
  <2>4. RequestHeaders' /\ ReplyHeaders' /\ DeviceHeaders' /\ ReactorHeaders'
    BY <1>9, <1>91, <1>92 DEF Pop, RequestHeaders, ReplyHeaders, DeviceHeaders, ReactorHeaders
  <2> QED
    BY <2>3, <2>4 DEF HeaderInv
<1>10. ASSUME NEW w \in Workers, Slice(w) PROVE HeaderInv'
  <2>1. \A v \in Workers : pc'[v] = "reply" => pc[v] = "reply" /\ task'[v] = task[v]
    BY <1>10 DEF Slice, GoTo, NextFragment, WorkerTypes, TaskTypes
  <2>2. TaskHeaders'
    BY <1>10, <1>91, <2>1 DEF Slice, TaskHeaders
  <2>3. RequestHeaders' /\ ReplyHeaders' /\ DeviceHeaders' /\ ReactorHeaders'
    BY <1>10, <1>91, <1>92 DEF Slice, RequestHeaders, ReplyHeaders, DeviceHeaders, ReactorHeaders
  <2> QED
    BY <2>2, <2>3 DEF HeaderInv
<1>11. ASSUME NEW w \in Workers, InsertSlicer(w) PROVE HeaderInv'
  <2>1. \A v \in Workers : pc'[v] = "reply" => pc[v] = "reply" /\ task'[v] = task[v]
    BY <1>11 DEF InsertSlicer, GoTo, NextFragment, WorkerTypes, TaskTypes
  <2>2. TaskHeaders'
    BY <1>11, <1>91, <2>1 DEF InsertSlicer, TaskHeaders
  <2>3. RequestHeaders' /\ ReplyHeaders' /\ DeviceHeaders' /\ ReactorHeaders'
    BY <1>11, <1>91, <1>92 DEF InsertSlicer, RequestHeaders, ReplyHeaders, DeviceHeaders,
             ReactorHeaders
  <2> QED
    BY <2>2, <2>3 DEF HeaderInv
<1>12. ASSUME NEW w \in Workers, SenderLock(w) PROVE HeaderInv'
  <2>1. \A v \in Workers : pc'[v] = "reply" => pc[v] = "reply" /\ task'[v] = task[v]
    BY <1>12 DEF SenderLock, GoTo, NextFragment, WorkerTypes, TaskTypes
  <2>2. TaskHeaders'
    BY <1>12, <1>91, <2>1 DEF SenderLock, TaskHeaders
  <2>3. RequestHeaders' /\ ReplyHeaders' /\ DeviceHeaders' /\ ReactorHeaders'
    BY <1>12, <1>91, <1>92 DEF SenderLock, RequestHeaders, ReplyHeaders, DeviceHeaders,
             ReactorHeaders
  <2> QED
    BY <2>2, <2>3 DEF HeaderInv
<1>13. ASSUME NEW w \in Workers, SendHeader(w) PROVE HeaderInv'
  <2>1. PICK d \in Iots, m \in Messages : d = SendingTo(w) /\ m = Sending(w)
    BY <1>13, CurrentFragment DEF SendHeader, Sends, Messages
  <2>2. \A c \in Iots : \A j \in 1 .. Len(toIot'[c]) :
          (c = d /\ toIot'[c][j] = m) \/ \E k \in 1 .. Len(toIot[c]) : toIot'[c][j] = toIot[c][k]
    <3>1. toIot' = [toIot EXCEPT ![d] = Append(toIot[d], m)] \/ toIot' = toIot
      BY <1>13, <2>1, CurrentFragment DEF SendHeader, SendTo, Sends
    <3>2. PutTo(toIot, d, m, toIot')
      BY <2>1, <3>1 DEF NetTypes, PutTo
    <3> QED
      BY <3>2, AllFromAppend
  <2>3. IsSent(m)' /\ HomeOf(m)' = d
    BY <1>13, <2>1, SendingIsSent
  <2>4. RequestHeaders'
    BY <2>2, <2>3, <1>92 DEF RequestHeaders
  <2>5. \A v \in Workers : pc'[v] = "reply" => pc[v] = "reply" /\ task'[v] = task[v]
    BY <1>13 DEF SendHeader, GoTo, NextFragment, WorkerTypes, TaskTypes
  <2>6. TaskHeaders'
    BY <1>13, <1>91, <2>5 DEF SendHeader, TaskHeaders
  <2>7. ReplyHeaders' /\ DeviceHeaders' /\ ReactorHeaders'
    BY <1>13, <1>91, <1>92 DEF SendHeader, ReplyHeaders, DeviceHeaders, ReactorHeaders
  <2> QED
    BY <2>4, <2>6, <2>7 DEF HeaderInv
<1>14. ASSUME NEW w \in Workers, SendData(w) PROVE HeaderInv'
  <2>1. PICK d \in Iots, m \in Messages : d = SendingTo(w) /\ m = Data(Current(w).bytes)
    BY <1>14, CurrentFragment DEF SendData, Sends, Messages, DataMessages, Data
  <2>2. \A c \in Iots : \A j \in 1 .. Len(toIot'[c]) :
          (c = d /\ toIot'[c][j] = m) \/ \E k \in 1 .. Len(toIot[c]) : toIot'[c][j] = toIot[c][k]
    <3>1. toIot' = [toIot EXCEPT ![d] = Append(toIot[d], m)] \/ toIot' = toIot
      BY <1>14, <2>1, CurrentFragment DEF SendData, SendTo, Sends
    <3>2. PutTo(toIot, d, m, toIot')
      BY <2>1, <3>1 DEF NetTypes, PutTo
    <3> QED
      BY <3>2, AllFromAppend
  <2>3. m.kind # "header"
    BY <2>1 DEF Data
  <2>4. RequestHeaders'
    BY <2>2, <2>3, <1>92 DEF RequestHeaders
  <2>5. \A v \in Workers : pc'[v] = "reply" => pc[v] = "reply" /\ task'[v] = task[v]
    BY <1>14 DEF SendData, GoTo, NextFragment, WorkerTypes, TaskTypes
  <2>6. TaskHeaders'
    BY <1>14, <1>91, <2>5 DEF SendData, TaskHeaders
  <2>7. ReplyHeaders' /\ DeviceHeaders' /\ ReactorHeaders'
    BY <1>14, <1>91, <1>92 DEF SendData, ReplyHeaders, DeviceHeaders, ReactorHeaders
  <2> QED
    BY <2>4, <2>6, <2>7 DEF HeaderInv
<1>15. ASSUME NEW w \in Workers, SendFails(w) PROVE HeaderInv'
  <2>1. RequestHeaders' /\ ReplyHeaders' /\ DeviceHeaders' /\ ReactorHeaders' /\ TaskHeaders'
    BY <1>15, <1>91, <1>92 DEF SendFails, RequestHeaders, ReplyHeaders, DeviceHeaders,
             ReactorHeaders, TaskHeaders
  <2> QED
    BY <2>1 DEF HeaderInv
<1>16. ASSUME NEW w \in Workers, Reply(w) PROVE HeaderInv'
  <2>1. \A v \in Workers : pc'[v] = "reply" => pc[v] = "reply" /\ task'[v] = task[v]
    <3>1. PICK u \in Uids, ks \in SUBSET Int : Strays(u, ks) \/ \E h \in Handles : Finds(w, u, ks, h)
      BY <1>16, ReplyDoes
    <3> QED
      BY <1>16, <3>1 DEF Reply, Strays, Finds, GoTo, WorkerTypes
  <2>2. TaskHeaders'
    BY <1>16, <1>91, <2>1 DEF Reply, TaskHeaders
  <2>3. RequestHeaders' /\ ReplyHeaders' /\ DeviceHeaders' /\ ReactorHeaders'
    <3>1. UNCHANGED <<toIot, fromIot, iot, reactor>>
      BY <1>16 DEF Reply
    <3> QED
      BY <3>1, <1>91, <1>92 DEF RequestHeaders, ReplyHeaders, DeviceHeaders, ReactorHeaders
  <2> QED
    BY <2>2, <2>3 DEF HeaderInv
<1>17. ASSUME NEW w \in Workers, Release(w) PROVE HeaderInv'
  <2>1. \A v \in Workers : pc'[v] = "reply" => pc[v] = "reply" /\ task'[v] = task[v]
    BY <1>17 DEF Release, GoTo, NextFragment, WorkerTypes, TaskTypes
  <2>2. TaskHeaders'
    BY <1>17, <1>91, <2>1 DEF Release, TaskHeaders
  <2>3. RequestHeaders' /\ ReplyHeaders' /\ DeviceHeaders' /\ ReactorHeaders'
    BY <1>17, <1>91, <1>92 DEF Release, RequestHeaders, ReplyHeaders, DeviceHeaders,
             ReactorHeaders
  <2> QED
    BY <2>2, <2>3 DEF HeaderInv
<1>18. ASSUME NEW i \in Iots, IotReadHeader(i) PROVE HeaderInv'
  <2>1. Head(toIot[i]) \in Headers /\ Head(toIot[i]).kind = "header"
    BY <1>18, FrontOfRequests DEF IotReadHeader, Headers
  <2>2. IsSent(Head(toIot[i])) /\ HomeOf(Head(toIot[i])) = i
    <3>1. Head(toIot[i]) = toIot[i][1] /\ 1 \in 1 .. Len(toIot[i])
      BY <1>18, TakeOne DEF IotReadHeader, NetTypes
    <3> QED
      BY <2>1, <3>1 DEF RequestHeaders
  <2>3. \A d \in Iots : \A j \in 1 .. Len(toIot'[d]) :
          \E k \in 1 .. Len(toIot[d]) : toIot'[d][j] = toIot[d][k]
    <3>1. TookFrom(toIot, i, toIot')
      BY <1>18 DEF IotReadHeader, NetTypes, TookFrom
    <3> QED
      BY <3>1, AllFromTail
  <2>4. RequestHeaders'
    BY <2>3, <1>92 DEF RequestHeaders
  <2>5. DeviceHeaders'
    <3>1. ASSUME NEW d \in Iots, d # i PROVE iot'[d] = iot[d]
      BY <1>18, <3>1 DEF IotReadHeader, DeviceTypes
    <3>2. iot'[i] = IotAt(IF Head(toIot[i]).m_type = "READ" THEN "read" ELSE "write",
            Head(toIot[i]))
      BY <1>18 DEF IotReadHeader, DeviceTypes
    <3>3. CASE Head(toIot[i]).m_type = "READ"
      <4>1. WasSent(Head(toIot[i]))
        BY <2>2, <3>3, ReadWasSent
      <4>2. PICK m : m = Head(toIot[i])
        OBVIOUS
      <4>3. iot'[i].at = "read" /\ iot'[i].header = m
        BY <3>2, <3>3, <4>2 DEF IotAt
      <4>4. WasSent(m)' /\ HomeOf(m)' = i
        BY <2>2, <4>1, <4>2, <1>91
      <4> QED
        BY <3>1, <3>3, <4>2, <4>3, <4>4, <1>91, <1>92 DEF DeviceHeaders
    <3>4. CASE Head(toIot[i]).m_type # "READ"
      <4>1. PICK m : m = Head(toIot[i])
        OBVIOUS
      <4>2. iot'[i].at = "write" /\ iot'[i].header = m /\ m.m_type = "WRITE"
        BY <2>1, <3>2, <3>4, <4>1 DEF IotAt, Headers
      <4>3. IsSent(m)' /\ HomeOf(m)' = i
        BY <2>2, <4>1, <1>92
      <4> QED
        BY <3>1, <4>2, <4>3, <1>91, <1>92 DEF DeviceHeaders
    <3> QED
      BY <3>3, <3>4
  <2>6. ReplyHeaders' /\ ReactorHeaders' /\ TaskHeaders'
    BY <1>18, <1>91, <1>92 DEF IotReadHeader, iotUnchanged, ReplyHeaders, ReactorHeaders,
             TaskHeaders
  <2> QED
    BY <2>4, <2>5, <2>6 DEF HeaderInv
<1>19. ASSUME NEW i \in Iots, IotWrite(i) PROVE HeaderInv'
  <2>1. \A d \in Iots : \A j \in 1 .. Len(toIot'[d]) :
          \E k \in 1 .. Len(toIot[d]) : toIot'[d][j] = toIot[d][k]
    <3>1. TookFrom(toIot, i, toIot')
      BY <1>19 DEF IotWrite, NetTypes, TookFrom
    <3> QED
      BY <3>1, AllFromTail
  <2>2. RequestHeaders'
    BY <2>1, <1>92 DEF RequestHeaders
  <2>3. DeviceHeaders'
    <3>1. ASSUME NEW d \in Iots, d # i PROVE iot'[d] = iot[d]
      BY <1>19, <3>1 DEF IotWrite, DeviceTypes
    <3>2. PICK m : m = iot[i].header
      OBVIOUS
    <3>3. iot'[i].at = "ack" /\ iot'[i].header = m /\ iot[i].at = "write"
      BY <1>19, <3>2 DEF IotWrite, DeviceTypes, IotAt
    <3>4. IsSent(m) /\ HomeOf(m) = i /\ m.m_type = "WRITE"
      BY <3>2, <3>3 DEF DeviceHeaders
    <3>5. WasSent(m)
      BY <1>19, <3>2, <3>3, <3>4, DataWasSent DEF IotWrite
    <3>6. WasSent(m)' /\ HomeOf(m)' = i
      BY <3>4, <3>5, <1>91
    <3> QED
      BY <3>1, <3>3, <3>4, <3>6, <1>91, <1>92 DEF DeviceHeaders
  <2>4. ReplyHeaders' /\ ReactorHeaders' /\ TaskHeaders'
    BY <1>19, <1>91, <1>92 DEF IotWrite, iotUnchanged, ReplyHeaders, ReactorHeaders, TaskHeaders
  <2> QED
    BY <2>2, <2>3, <2>4 DEF HeaderInv
<1>20. ASSUME NEW i \in Iots, IotSendHeader(i) PROVE HeaderInv'
  <2>1. ReplyHeaders'
    <3>1. PICK m : m = iot[i].header
      OBVIOUS
    <3>2. m \in Messages /\ WasSent(m)' /\ HomeOf(m)' = i
      BY <1>20, <3>1, <1>91 DEF IotSendHeader, DeviceHeaders, WasSent, IsHeader, Messages
    <3>3. \A d \in Iots : \A j \in 1 .. Len(fromIot'[d]) :
            (d = i /\ fromIot'[d][j] = m) \/
              \E k \in 1 .. Len(fromIot[d]) : fromIot'[d][j] = fromIot[d][k]
      <4>1. PutTo(fromIot, i, m, fromIot')
        BY <1>20, <3>1, <3>2 DEF IotSendHeader, NetTypes, PutTo
      <4> QED
        BY <4>1, AllFromAppend
    <3> QED
      BY <3>2, <3>3, <1>91 DEF ReplyHeaders
  <2>2. DeviceHeaders'
    <3>1. \A d \in Iots : iot'[d] = iot[d] \/ iot'[d] = IotIdle \/
            (iot[d].at = "read" /\ iot'[d] = IotAt("sendData", iot[d].header))
      BY <1>20 DEF IotSendHeader, DeviceTypes
    <3>2. \A d \in Iots : iot'[d] = iot[d] \/ iot'[d].at = "header" \/
            (iot[d].at = "read" /\ iot'[d].at = "sendData" /\ iot'[d].header = iot[d].header)
      <4>1. IotIdle.at = "header" /\ \A m : IotAt("sendData", m).at = "sendData" /\
              IotAt("sendData", m).header = m
        BY DEF IotIdle, IotAt
      <4> QED
        BY <3>1, <4>1
    <3> QED
      BY <3>2, <1>91, <1>92 DEF DeviceHeaders
  <2>3. RequestHeaders' /\ ReactorHeaders' /\ TaskHeaders'
    BY <1>20, <1>91, <1>92 DEF IotSendHeader, iotUnchanged, RequestHeaders, ReactorHeaders,
             TaskHeaders
  <2> QED
    BY <2>1, <2>2, <2>3 DEF HeaderInv
<1>21. ASSUME NEW i \in Iots, IotSendData(i) PROVE HeaderInv'
  <2>1. ReplyHeaders'
    <3>1. PICK v : v = storage[i][iot[i].header.m_iotOffset]
      OBVIOUS
    <3>2. Data(v) \in Messages /\ Data(v).kind # "header"
      <4>1. iot[i].header.m_iotOffset \in Offsets
        BY <1>21 DEF IotSendData, DeviceHeaders, WasSent, IsHeader, Headers
      <4>2. v \in Bytes
        BY <3>1, <4>1 DEF DeviceTypes
      <4> QED
        BY <4>2 DEF Messages, Data, DataMessages
    <3>3. \A d \in Iots : \A j \in 1 .. Len(fromIot'[d]) :
            fromIot'[d][j] = Data(v) \/
              \E k \in 1 .. Len(fromIot[d]) : fromIot'[d][j] = fromIot[d][k]
      <4>1. PutTo(fromIot, i, Data(v), fromIot')
        BY <1>21, <3>1, <3>2 DEF IotSendData, NetTypes, PutTo
      <4> QED
        BY <4>1, AllFromAppend
    <3> QED
      BY <3>2, <3>3, <1>91 DEF ReplyHeaders
  <2>2. DeviceHeaders'
    BY <1>21, <1>91, <1>92 DEF IotSendData, DeviceHeaders, DeviceTypes, IotIdle
  <2>3. RequestHeaders' /\ ReactorHeaders' /\ TaskHeaders'
    BY <1>21, <1>91, <1>92 DEF IotSendData, iotUnchanged, RequestHeaders, ReactorHeaders,
             TaskHeaders
  <2> QED
    BY <2>1, <2>2, <2>3 DEF HeaderInv
<1>22. ASSUME NEW i \in Iots, IotFail(i) PROVE HeaderInv'
  <2>1. RequestHeaders'
    <3>1. \A d \in Iots : toIot'[d] = toIot[d] \/ toIot'[d] = <<>>
      BY <1>22 DEF IotFail, NetTypes
    <3>2. Len(<<>>) = 0
      BY EmptySeq
    <3>3. \A d \in Iots : \A j \in 1 .. Len(toIot'[d]) : toIot'[d] = toIot[d]
      BY <3>1, <3>2
    <3> QED
      BY <3>3, <1>92 DEF RequestHeaders
  <2>2. DeviceHeaders'
    BY <1>22, <1>91, <1>92 DEF IotFail, DeviceHeaders, DeviceTypes, Closed
  <2>3. ReplyHeaders' /\ ReactorHeaders' /\ TaskHeaders'
    BY <1>22, <1>91, <1>92 DEF IotFail, iotUnchanged, ReplyHeaders, ReactorHeaders, TaskHeaders
  <2> QED
    BY <2>1, <2>2, <2>3 DEF HeaderInv
<1>23. CASE UNCHANGED vars
  <2>1. RequestHeaders' /\ ReplyHeaders' /\ DeviceHeaders' /\ ReactorHeaders' /\ TaskHeaders'
    BY <1>23, <1>91, <1>92 DEF vars, RequestHeaders, ReplyHeaders, DeviceHeaders, ReactorHeaders,
             TaskHeaders
  <2> QED
    BY <2>1 DEF HeaderInv
<1> QED
  BY <1>1, <1>2, <1>3, <1>4, <1>5, <1>6, <1>7, <1>8, <1>9, <1>10, <1>11, <1>12, <1>13,
     <1>14, <1>15, <1>16, <1>17, <1>18, <1>19, <1>20, <1>21, <1>22, <1>23
  DEF Next, Reactor, Worker, Iot, Stop

-----------------------------------------------------------------------------
(***************************************************************************)
(* The header that a worker is sending stays the same until it goes on.    *)
(***************************************************************************)
LEMMA SendingStays ==
  ASSUME TypeInv, ServeInv, [Next]_vars, NEW w \in Workers, Sends(w),
         held'[w] = held[w], frag'[w] = frag[w]
  PROVE  /\ Sending(w)' = Sending(w) /\ SendingTo(w)' = SendingTo(w)
         /\ request'[held[w]] = request[held[w]]
<1>1. held[w] \in Handles /\ request[held[w]] # Unset /\ Sliced(held[w])
  BY CurrentFragment
<1>2. request'[held[w]] = request[held[w]] /\ m_requestUid'[held[w]] = m_requestUid[held[w]]
  BY <1>1, RequestsStay DEF Stays
<1> QED
  BY <1>1, <1>2 DEF Sending, SendingTo, HeaderOf, Place, NumOf

(***************************************************************************)
(* A message that does not ask for data may be forgotten.                  *)
(***************************************************************************)
LEMMA ForgetFirst ==
  ASSUME NEW type, NEW s \in Seq(Messages), NEW first, NEW other,
         ~Wants(type, first), ~Wants(type, other), Framed(type, s, first)
  PROVE  /\ Framed(type, s, other)
         /\ \A value : Carries(value, s, first) => Carries(value, s, other)
         /\ Wants(type, LastOf(s, first)) => LastOf(s, other) = LastOf(s, first)
         /\ Wants(type, LastOf(s, other)) => LastOf(s, other) = LastOf(s, first)
<1>1. \A j \in 1 .. Len(s) : Before(s, first, j) = Before(s, other, j) \/
        (Before(s, first, j) = first /\ Before(s, other, j) = other)
  BY DEF Before
<1>2. Framed(type, s, other)
  BY <1>1 DEF Framed
<1>3. \A value : Carries(value, s, first) => Carries(value, s, other)
  BY <1>1 DEF Carries, Framed
<1> QED
  BY <1>2, <1>3 DEF LastOf

(***************************************************************************)
(* A step that leaves the streams to the devices, what their readers are   *)
(* at and the senders alone.                                               *)
(***************************************************************************)
QuietSenders ==
  \A w \in Workers :
    /\ pc'[w] = "sendData" <=> pc[w] = "sendData"
    /\ pc[w] = "sendData" => held'[w] = held[w] /\ frag'[w] = frag[w]
    /\ pc'[w] \in {"sendHeader", "sendData"} => senderMutex' = w
QuietRequests ==
  /\ UNCHANGED toIot
  /\ \A i \in Iots : FirstTo(i)' = FirstTo(i) /\ (iot'[i] = Closed <=> iot[i] = Closed)
QuietReplies ==
  /\ UNCHANGED fromIot
  /\ \A i \in Iots : /\ FirstFrom(i)' = FirstFrom(i)
                     /\ iot'[i] = Closed <=> iot[i] = Closed
                     /\ iot'[i].at = "sendData" <=> iot[i].at = "sendData"

\* A step that sends nothing to the devices keeps their streams framed.
LEMMA QuietRequestFrames ==
  ASSUME TypeInv, ServeInv, FrameInv, [Next]_vars, QuietSenders, QuietRequests
  PROVE  RequestFrames' /\ SendersOK'
<1>1. RequestFrames /\ SendersOK /\ (eofReads' = 0 => eofReads = 0)
  BY MadeUpWhenBroken DEF FrameInv
<1>2. ASSUME NEW w \in Workers, pc[w] = "sendData"
      PROVE  /\ Sending(w)' = Sending(w) /\ SendingTo(w)' = SendingTo(w) /\ SendingTo(w) \in Iots
             /\ request'[held[w]] = request[held[w]] /\ held'[w] = held[w]
  BY <1>2, SendingStays, CurrentFragment DEF QuietSenders, Sends
<1>3. ASSUME NEW i \in Iots
      PROVE  toIot'[i] = toIot[i] /\ FirstTo(i)' = FirstTo(i) /\
               (iot'[i] = Closed <=> iot[i] = Closed)
  BY DEF QuietRequests
<1>4. RequestFrames'
  BY <1>1, <1>2, <1>3 DEF RequestFrames, QuietSenders
<1>5. SendersOK'
  <2> SUFFICES ASSUME NEW w \in Workers
               PROVE  /\ pc'[w] \in {"sendHeader", "sendData"} => senderMutex' = w
                      /\ pc'[w] = "sendData" => request'[held'[w]].type = "WRITE"
                      /\ pc'[w] = "sendData" /\ iot'[SendingTo(w)'] # Closed =>
                           LastOf(toIot'[SendingTo(w)'], FirstTo(SendingTo(w))') = Sending(w)'
    BY DEF SendersOK, Closed
  <2>1. CASE pc[w] # "sendData"
    BY <2>1 DEF QuietSenders
  <2>2. CASE pc[w] = "sendData"
    <3>1. PICK d \in Iots : d = SendingTo(w)
      BY <1>2, <2>2
    <3>2. FirstTo(SendingTo(w))' = FirstTo(d)
      BY <1>2, <1>3, <2>2, <3>1
    <3> QED
      BY <1>1, <1>2, <1>3, <2>2, <3>1, <3>2 DEF SendersOK, QuietSenders
  <2> QED
    BY <2>1, <2>2
<1> QED
  BY <1>4, <1>5

\* A step that leaves the replies alone keeps their streams framed.
LEMMA QuietReplyFrames ==
  ASSUME ReplyFrames, QuietReplies
  PROVE  ReplyFrames'
BY DEF ReplyFrames, QuietReplies, Closed

(***************************************************************************)
(* Every step keeps the streams to the devices framed.                     *)
(***************************************************************************)
LEMMA RequestFramesKept ==
  ASSUME TypeInv, ServeInv, HeaderInv, FrameInv, BufferInv, [Next]_vars
  PROVE  RequestFrames' /\ SendersOK'
<1> USE DEF kernelVars, requestVars, reactorVars, workerVars, slicerVars, netVars, iotVars,
            iotUnchanged
<1>0. /\ WorkerTypes /\ NetTypes /\ DeviceTypes /\ RequestFrames /\ SendersOK
      /\ eofReads' = 0 => eofReads = 0
  BY MadeUpWhenBroken DEF TypeInv, FrameInv
<1> USE <1>0
<1>1. ASSUME NEW h \in Handles, NEW s \in Shapes, KernelSubmit(h, s)
      PROVE  RequestFrames' /\ SendersOK'
  <2>1. QuietSenders
    BY <1>1 DEF KernelSubmit, QuietSenders, GoTo, WorkerTypes, SendersOK
  <2>2. QuietRequests
    BY <1>1 DEF KernelSubmit, QuietRequests, FirstTo
  <2> QED
    BY <2>1, <2>2, QuietRequestFrames
<1>2. CASE KernelShutdown
  <2>1. QuietSenders
    BY <1>2 DEF KernelShutdown, QuietSenders, GoTo, WorkerTypes, SendersOK
  <2>2. QuietRequests
    BY <1>2 DEF KernelShutdown, QuietRequests, FirstTo
  <2> QED
    BY <2>1, <2>2, QuietRequestFrames
<1>3. CASE ManageRequests
  <2>1. QuietSenders
    BY <1>3 DEF ManageRequests, QuietSenders, GoTo, WorkerTypes, SendersOK
  <2>2. QuietRequests
    BY <1>3 DEF ManageRequests, QuietRequests, FirstTo
  <2> QED
    BY <2>1, <2>2, QuietRequestFrames
<1>4. CASE ReactorReturn
  <2>1. QuietSenders
    BY <1>4 DEF ReactorReturn, QuietSenders, GoTo, WorkerTypes, SendersOK
  <2>2. QuietRequests
    BY <1>4 DEF ReactorReturn, QuietRequests, FirstTo
  <2> QED
    BY <2>1, <2>2, QuietRequestFrames
<1>5. CASE ReactorAtEof
  <2>1. QuietSenders
    BY <1>5 DEF ReactorAtEof, QuietSenders, GoTo, WorkerTypes, SendersOK
  <2>2. QuietRequests
    BY <1>5 DEF ReactorAtEof, QuietRequests, FirstTo
  <2> QED
    BY <2>1, <2>2, QuietRequestFrames
<1>6. ASSUME NEW i \in Iots, ManageReplies(i) PROVE RequestFrames' /\ SendersOK'
  <2>1. QuietSenders
    BY <1>6 DEF ManageReplies, QuietSenders, GoTo, WorkerTypes, SendersOK
  <2>2. QuietRequests
    BY <1>6 DEF ManageReplies, QuietRequests, FirstTo
  <2> QED
    BY <2>1, <2>2, QuietRequestFrames
<1>7. ASSUME NEW i \in Iots, ManageRepliesData(i) PROVE RequestFrames' /\ SendersOK'
  <2>1. QuietSenders
    BY <1>7 DEF ManageRepliesData, QuietSenders, GoTo, WorkerTypes, SendersOK
  <2>2. QuietRequests
    BY <1>7 DEF ManageRepliesData, QuietRequests, FirstTo
  <2> QED
    BY <2>1, <2>2, QuietRequestFrames
<1>8. ASSUME NEW i \in Iots, ManageRepliesEof(i) PROVE RequestFrames' /\ SendersOK'
  <2>1. QuietSenders
    BY <1>8 DEF ManageRepliesEof, QuietSenders, GoTo, WorkerTypes, SendersOK
  <2>2. QuietRequests
    BY <1>8 DEF ManageRepliesEof, QuietRequests, FirstTo
  <2> QED
    BY <2>1, <2>2, QuietRequestFrames
<1>9. ASSUME NEW w \in Workers, Pop(w) PROVE RequestFrames' /\ SendersOK'
  <2>1. QuietSenders
    BY <1>9 DEF Pop, QuietSenders, GoTo, WorkerTypes, SendersOK
  <2>2. QuietRequests
    BY <1>9 DEF Pop, QuietRequests, FirstTo
  <2> QED
    BY <2>1, <2>2, QuietRequestFrames
<1>10. ASSUME NEW w \in Workers, Slice(w) PROVE RequestFrames' /\ SendersOK'
  <2>1. QuietSenders
    BY <1>10 DEF Slice, QuietSenders, GoTo, WorkerTypes, SendersOK
  <2>2. QuietRequests
    BY <1>10 DEF Slice, QuietRequests, FirstTo
  <2> QED
    BY <2>1, <2>2, QuietRequestFrames
<1>11. ASSUME NEW w \in Workers, InsertSlicer(w) PROVE RequestFrames' /\ SendersOK'
  <2>1. QuietSenders
    BY <1>11 DEF InsertSlicer, QuietSenders, GoTo, WorkerTypes, SendersOK
  <2>2. QuietRequests
    BY <1>11 DEF InsertSlicer, QuietRequests, FirstTo
  <2> QED
    BY <2>1, <2>2, QuietRequestFrames
<1>12. ASSUME NEW w \in Workers, SenderLock(w) PROVE RequestFrames' /\ SendersOK'
  <2>1. QuietSenders
    BY <1>12, NamesAssumption DEF SenderLock, QuietSenders, GoTo, WorkerTypes, SendersOK
  <2>2. QuietRequests
    BY <1>12 DEF SenderLock, QuietRequests, FirstTo
  <2> QED
    BY <2>1, <2>2, QuietRequestFrames
<1>13. ASSUME NEW w \in Workers, SendHeader(w) PROVE RequestFrames' /\ SendersOK'
  <2>1. /\ pc[w] = "sendHeader" /\ senderMutex = w
        /\ \A v \in Workers \ {w} : pc[v] \notin {"sendHeader", "sendData"}
    BY <1>13 DEF SendHeader, SendersOK
  <2>2. PICK d \in Iots, m \in Headers : d = SendingTo(w) /\ m = Sending(w) /\
          m = Current(w).header /\ d = Current(w).iot
    BY <1>13, CurrentFragment DEF SendHeader, Sends
  <2>3. m.m_type = request[held[w]].type /\ m.kind = "header" /\ m \in Messages
    BY <1>13, <2>2, CurrentFragment, MadeHeader DEF SendHeader, Sends, Sending, Messages, Headers
  <2>4. /\ UNCHANGED <<iot, request, held>> /\ \A v \in Workers \ {w} : pc'[v] = pc[v]
        /\ \/ /\ request[held[w]].type = "WRITE" /\ pc'[w] = "sendData" /\
                   senderMutex' = w /\ frag' = frag
           \/ request[held[w]].type # "WRITE" /\ pc'[w] \in {"send", "release"}
    BY <1>13, <2>1 DEF SendHeader, NextFragment, GoTo, WorkerTypes
  <2>5. pc'[w] = "sendData" => SendingTo(w)' = d /\ Sending(w)' = m
    BY <2>1, <2>2, <2>4, SendingStays DEF Sends
  <2>6. \A i \in Iots : FirstTo(i)' = FirstTo(i) /\ iot'[i] = iot[i] /\
          ~Wants("WRITE", LastOf(toIot[i], FirstTo(i)))
    BY <2>1, <2>4 DEF FirstTo, RequestFrames
  <2>7. \A v \in Workers : pc'[v] \in {"sendHeader", "sendData"} => v = w /\
          request[held[w]].type = "WRITE" /\ pc'[w] = "sendData" /\ senderMutex' = w
    BY <2>1, <2>4
  <2>8. CASE iot[d] = Closed /\ toIot' = toIot
    <3>1. RequestFrames'
      BY <2>6, <2>8 DEF RequestFrames, Closed
    <3>2. SendersOK'
      <4>1. pc'[w] = "sendData" => iot'[SendingTo(w)'] = Closed
        BY <2>4, <2>5, <2>8
      <4> QED
        BY <2>4, <2>7, <4>1 DEF SendersOK, Closed
    <3> QED
      BY <3>1, <3>2
  <2>9. CASE iot[d] # Closed /\ toIot' = [toIot EXCEPT ![d] = Append(toIot[d], m)]
    <3>1. toIot'[d] = Append(toIot[d], m) /\ \A i \in Iots \ {d} : toIot'[i] = toIot[i]
      BY <2>9 DEF NetTypes
    <3>2. /\ Framed("WRITE", Append(toIot[d], m), FirstTo(d)) /\
               (eofReads = 0 => Carries(Payloads, Append(toIot[d], m), FirstTo(d)))
          /\ LastOf(Append(toIot[d], m), FirstTo(d)) = m
      <4>1. toIot[d] \in Seq(Messages) /\ Framed("WRITE", toIot[d], FirstTo(d)) /\
              (eofReads = 0 => Carries(Payloads, toIot[d], FirstTo(d)))
        BY DEF NetTypes, RequestFrames
      <4> QED
        BY <2>3, <2>6, <4>1, PutEnd
    <3>3. RequestFrames'
      <4>1. ASSUME NEW i \in Iots
            PROVE  /\ Framed("WRITE", toIot'[i], FirstTo(i)') /\
                        (eofReads = 0 => Carries(Payloads, toIot'[i], FirstTo(i)'))
                   /\ iot'[i] = Closed => toIot'[i] = <<>>
                   /\ Wants("WRITE", LastOf(toIot'[i], FirstTo(i)')) => i = d /\ pc'[w] = "sendData"
        <5>1. CASE i = d
          BY <2>3, <2>4, <2>6, <2>9, <3>1, <3>2, <5>1 DEF Wants
        <5>2. CASE i # d
          BY <2>6, <3>1, <5>2 DEF RequestFrames
        <5> QED
          BY <5>1, <5>2
      <4> QED
        BY <2>5, <4>1 DEF RequestFrames, Closed, Payloads, Payload
    <3>4. SendersOK'
      <4>1. pc'[w] = "sendData" =>
              LastOf(toIot'[SendingTo(w)'], FirstTo(SendingTo(w))') = Sending(w)'
        <5>1. ASSUME pc'[w] = "sendData" PROVE FirstTo(SendingTo(w))' = FirstTo(d)
          BY <2>4, <2>5, <5>1 DEF FirstTo
        <5> QED
          BY <2>5, <3>1, <3>2, <5>1
      <4> QED
        BY <2>4, <2>7, <4>1 DEF SendersOK, Closed
    <3> QED
      BY <3>3, <3>4
  <2> QED
    BY <1>13, <2>2, <2>8, <2>9 DEF SendHeader, SendTo
<1>14. ASSUME NEW w \in Workers, SendData(w) PROVE RequestFrames' /\ SendersOK'
  <2>1. /\ pc[w] = "sendData" /\ senderMutex = w
        /\ \A v \in Workers \ {w} : pc[v] \notin {"sendHeader", "sendData"}
    BY <1>14 DEF SendData, SendersOK
  <2>2. PICK d \in Iots, m \in Headers, b \in Bytes : d = SendingTo(w) /\ m = Sending(w) /\
          b = Current(w).bytes /\ d = Current(w).iot
    BY <1>14, CurrentFragment DEF SendData, Sends
  <2>3. m.m_type = "WRITE" /\ m.kind = "header" /\ m.owner = held[w] /\ m.m_fragmentIdx = frag[w]
    BY <2>1, <2>2, CurrentFragment, MadeHeader DEF Sends, Sending, SendersOK
  <2>4. eofReads = 0 => b = Payload(held[w], frag[w])
    <3>1. /\ frag[w] \in Blocks(request[held[w]]) /\ b = buffer[held[w]][frag[w]] /\
               Serves(w) /\ NextFrag(w) = frag[w] /\ frag[w] >= frag[w]
      BY <2>1, <2>2, CurrentFragment DEF Sends, Serves, NextFrag
    <3> QED
      BY <2>1, <3>1 DEF BufferInv, SendersOK
  <2>5. Data(b) \in Messages /\ Data(b).kind = "data" /\ Data(b).bytes = b
    BY DEF Messages, DataMessages, Data
  <2>6. /\ UNCHANGED <<iot, request, held>> /\ \A v \in Workers \ {w} : pc'[v] = pc[v]
        /\ pc'[w] \in {"send", "release"}
    BY <1>14 DEF SendData, NextFragment, GoTo, WorkerTypes
  <2>7. \A v \in Workers : pc'[v] \notin {"sendHeader", "sendData"}
    BY <2>1, <2>6
  <2>8. \A i \in Iots : FirstTo(i)' = FirstTo(i) /\ iot'[i] = iot[i] /\
          (i # d => ~Wants("WRITE", LastOf(toIot[i], FirstTo(i))))
    BY <2>1, <2>2, <2>6 DEF FirstTo, RequestFrames
  <2>9. SendersOK'
    BY <2>7 DEF SendersOK, Closed
  <2>10. CASE iot[d] = Closed /\ toIot' = toIot
    <3>1. LastOf(toIot[d], FirstTo(d)) = Data(Zero)
      BY <2>10 DEF RequestFrames, LastOf, FirstTo, Closed
    <3>2. ~Wants("WRITE", LastOf(toIot[d], FirstTo(d)))
      BY <3>1 DEF Wants, Data
    <3>3. RequestFrames'
      BY <2>8, <2>10, <3>2 DEF RequestFrames, Closed
    <3> QED
      BY <2>9, <3>3
  <2>11. CASE iot[d] # Closed /\ toIot' = [toIot EXCEPT ![d] = Append(toIot[d], Data(b))]
    <3>1. toIot'[d] = Append(toIot[d], Data(b)) /\ \A i \in Iots \ {d} : toIot'[i] = toIot[i]
      BY <2>11 DEF NetTypes
    <3>2. LastOf(toIot[d], FirstTo(d)) = m
      BY <2>1, <2>2, <2>11 DEF SendersOK
    <3>3. eofReads = 0 => Payloads[m.owner][m.m_fragmentIdx] = b
      BY <2>1, <2>3, <2>4, CurrentFragment DEF Payloads, Sends
    <3>4. /\ Framed("WRITE", Append(toIot[d], Data(b)), FirstTo(d)) /\
               (eofReads = 0 => Carries(Payloads, Append(toIot[d], Data(b)), FirstTo(d)))
          /\ LastOf(Append(toIot[d], Data(b)), FirstTo(d)) = Data(b)
      <4>1. /\ toIot[d] \in Seq(Messages) /\ Framed("WRITE", toIot[d], FirstTo(d)) /\
                 (eofReads = 0 => Carries(Payloads, toIot[d], FirstTo(d)))
            /\ Wants("WRITE", LastOf(toIot[d], FirstTo(d)))
        BY <2>3, <3>2 DEF NetTypes, RequestFrames, Wants
      <4> QED
        BY <2>5, <3>2, <3>3, <4>1, PutEnd
    <3>5. RequestFrames'
      <4>1. ASSUME NEW i \in Iots
            PROVE  /\ Framed("WRITE", toIot'[i], FirstTo(i)') /\
                        (eofReads = 0 => Carries(Payloads, toIot'[i], FirstTo(i)'))
                   /\ iot'[i] = Closed => toIot'[i] = <<>>
                   /\ ~Wants("WRITE", LastOf(toIot'[i], FirstTo(i)'))
        <5>1. CASE i = d
          BY <2>5, <2>8, <2>11, <3>1, <3>4, <5>1 DEF Wants
        <5>2. CASE i # d
          BY <2>8, <3>1, <5>2 DEF RequestFrames
        <5> QED
          BY <5>1, <5>2
      <4> QED
        BY <4>1 DEF RequestFrames, Closed, Payloads, Payload
    <3> QED
      BY <2>9, <3>5
  <2> QED
    BY <1>14, <2>2, <2>10, <2>11 DEF SendData, SendTo
<1>15. ASSUME NEW w \in Workers, SendFails(w) PROVE RequestFrames' /\ SendersOK'
  <2>1. QuietSenders
    BY <1>15 DEF SendFails, QuietSenders, GoTo, WorkerTypes, SendersOK
  <2>2. QuietRequests
    BY <1>15 DEF SendFails, QuietRequests, FirstTo
  <2> QED
    BY <2>1, <2>2, QuietRequestFrames
<1>16. ASSUME NEW w \in Workers, Reply(w) PROVE RequestFrames' /\ SendersOK'
  <2>1. QuietSenders
    BY <1>16 DEF Reply, QuietSenders, GoTo, WorkerTypes, SendersOK
  <2>2. QuietRequests
    BY <1>16 DEF Reply, QuietRequests, FirstTo
  <2> QED
    BY <2>1, <2>2, QuietRequestFrames
<1>17. ASSUME NEW w \in Workers, Release(w) PROVE RequestFrames' /\ SendersOK'
  <2>1. QuietSenders
    BY <1>17 DEF Release, QuietSenders, GoTo, WorkerTypes, SendersOK
  <2>2. QuietRequests
    BY <1>17 DEF Release, QuietRequests, FirstTo
  <2> QED
    BY <2>1, <2>2, QuietRequestFrames
<1>18. ASSUME NEW i \in Iots, IotReadHeader(i) PROVE RequestFrames' /\ SendersOK'
  <2>1. /\ UNCHANGED <<pc, held, frag, senderMutex, request>> /\
             toIot' = [toIot EXCEPT ![i] = Tail(toIot[i])] /\ toIot[i] # <<>>
        /\ \A d \in Iots \ {i} : iot'[d] = iot[d]
    BY <1>18 DEF IotReadHeader, DeviceTypes
  <2>2. toIot'[i] = Tail(toIot[i]) /\ \A d \in Iots \ {i} : toIot'[d] = toIot[d] /\
          FirstTo(d)' = FirstTo(d)
    BY <2>1 DEF NetTypes, FirstTo
  <2>3. /\ Framed("WRITE", Tail(toIot[i]), Head(toIot[i])) /\
             (eofReads = 0 => Carries(Payloads, Tail(toIot[i]), Head(toIot[i])))
        /\ LastOf(Tail(toIot[i]), Head(toIot[i])) = LastOf(toIot[i], FirstTo(i)) /\
             Tail(toIot[i]) \in Seq(Messages)
    <3>1. toIot[i] \in Seq(Messages) /\ Framed("WRITE", toIot[i], FirstTo(i)) /\
            (eofReads = 0 => Carries(Payloads, toIot[i], FirstTo(i)))
      BY DEF NetTypes, RequestFrames
    <3> QED
      BY <2>1, <3>1, TakeFront
  <2>4. /\ iot[i] # Closed /\ iot'[i] # Closed /\
             (FirstTo(i)' = Head(toIot[i]) \/
               (~Wants("WRITE", FirstTo(i)') /\ ~Wants("WRITE", Head(toIot[i]))))
    <3>1. Head(toIot[i]) \in Headers /\ iot[i].at = "header"
      BY <1>18, FrontOfRequests DEF IotReadHeader
    <3>2. iot'[i] = IotAt(IF Head(toIot[i]).m_type = "READ" THEN "read" ELSE "write",
            Head(toIot[i]))
      BY <1>18 DEF IotReadHeader, DeviceTypes
    <3>3. CASE Head(toIot[i]).m_type = "READ"
      <4>1. iot'[i].at = "read"
        BY <3>2, <3>3 DEF IotAt
      <4>2. FirstTo(i)' = Data(Zero)
        BY <4>1 DEF FirstTo, Data
      <4> QED
        BY <3>1, <3>3, <4>1, <4>2 DEF Wants, Data, Closed
    <3>4. CASE Head(toIot[i]).m_type # "READ"
      <4>1. iot'[i].at = "write" /\ iot'[i].header = Head(toIot[i])
        BY <3>2, <3>4 DEF IotAt
      <4>2. FirstTo(i)' = Head(toIot[i])
        BY <4>1 DEF FirstTo
      <4> QED
        BY <3>1, <4>1, <4>2 DEF Closed
    <3> QED
      BY <3>3, <3>4
  <2>5. /\ Framed("WRITE", toIot'[i], FirstTo(i)')
        /\ eofReads = 0 => Carries(Payloads, toIot'[i], FirstTo(i)')
        /\ Wants("WRITE", LastOf(toIot[i], FirstTo(i))) =>
             LastOf(toIot'[i], FirstTo(i)') = LastOf(toIot[i], FirstTo(i))
        /\ Wants("WRITE", LastOf(toIot'[i], FirstTo(i)')) =>
             LastOf(toIot'[i], FirstTo(i)') = LastOf(toIot[i], FirstTo(i))
    <3>1. PICK s, first, other : s \in Seq(Messages) /\ s = Tail(toIot[i]) /\
            first = Head(toIot[i]) /\ other = FirstTo(i)'
      BY <2>3
    <3>2. CASE first = other
      BY <2>2, <2>3, <3>1, <3>2
    <3>3. CASE first # other
      <4>1. ~Wants("WRITE", first) /\ ~Wants("WRITE", other) /\ s \in Seq(Messages) /\
              Framed("WRITE", s, first) /\ (eofReads = 0 => Carries(Payloads, s, first))
        BY <2>3, <2>4, <3>1, <3>3
      <4>2. /\ Framed("WRITE", s, other) /\ (eofReads = 0 => Carries(Payloads, s, other))
            /\ Wants("WRITE", LastOf(s, first)) => LastOf(s, other) = LastOf(s, first)
            /\ Wants("WRITE", LastOf(s, other)) => LastOf(s, other) = LastOf(s, first)
        BY <4>1, ForgetFirst
      <4> QED
        BY <2>2, <2>3, <3>1, <4>2
    <3> QED
      BY <3>2, <3>3
  <2>6. \A v \in Workers : pc[v] = "sendData" => SendingTo(v)' = SendingTo(v) /\
          Sending(v)' = Sending(v) /\ SendingTo(v) \in Iots
    BY <2>1, SendingStays, CurrentFragment DEF Sends
  <2>7. RequestFrames'
    <3>1. ASSUME NEW d \in Iots
          PROVE  /\ Framed("WRITE", toIot'[d], FirstTo(d)') /\
                      (eofReads = 0 => Carries(Payloads, toIot'[d], FirstTo(d)'))
                 /\ iot'[d] = Closed => toIot'[d] = <<>>
                 /\ Wants("WRITE", LastOf(toIot'[d], FirstTo(d)')) =>
                      Wants("WRITE", LastOf(toIot[d], FirstTo(d)))
      BY <2>1, <2>2, <2>4, <2>5 DEF RequestFrames
    <3>2. ASSUME NEW d \in Iots, Wants("WRITE", LastOf(toIot'[d], FirstTo(d)'))
          PROVE  \E v \in Workers : pc'[v] = "sendData" /\ SendingTo(v)' = d
      <4>1. PICK v \in Workers : pc[v] = "sendData" /\ SendingTo(v) = d
        BY <3>1, <3>2 DEF RequestFrames
      <4> QED
        BY <2>1, <2>6, <4>1
    <3> QED
      BY <3>1, <3>2 DEF RequestFrames, Payloads, Payload
  <2>8. SendersOK'
    <3>1. ASSUME NEW v \in Workers, pc[v] = "sendData", iot'[SendingTo(v)] # Closed
          PROVE  LastOf(toIot'[SendingTo(v)'], FirstTo(SendingTo(v))') = Sending(v)'
      <4>1. PICK d \in Iots : d = SendingTo(v) /\ d = SendingTo(v)'
        BY <2>6, <3>1
      <4>2. iot[d] # Closed /\ LastOf(toIot[d], FirstTo(d)) = Sending(v)
        BY <2>1, <2>4, <3>1, <4>1 DEF SendersOK
      <4>3. Wants("WRITE", Sending(v))
        BY <3>1, CurrentFragment, MadeHeader DEF Wants, Sending, Sends, SendersOK
      <4>4. LastOf(toIot'[d], FirstTo(d)') = Sending(v)
        BY <2>2, <2>5, <4>2, <4>3
      <4>5. FirstTo(SendingTo(v))' = FirstTo(d)'
        BY <4>1 DEF FirstTo
      <4> QED
        BY <2>6, <3>1, <4>1, <4>4, <4>5
    <3> QED
      BY <2>1, <2>6, <3>1 DEF SendersOK, Closed
  <2> QED
    BY <2>7, <2>8
<1>19. ASSUME NEW i \in Iots, IotWrite(i) PROVE RequestFrames' /\ SendersOK'
  <2>1. /\ UNCHANGED <<pc, held, frag, senderMutex, request>> /\
             toIot' = [toIot EXCEPT ![i] = Tail(toIot[i])] /\ toIot[i] # <<>>
        /\ \A d \in Iots \ {i} : iot'[d] = iot[d]
    BY <1>19 DEF IotWrite, DeviceTypes
  <2>2. toIot'[i] = Tail(toIot[i]) /\ \A d \in Iots \ {i} : toIot'[d] = toIot[d] /\
          FirstTo(d)' = FirstTo(d)
    BY <2>1 DEF NetTypes, FirstTo
  <2>3. /\ Framed("WRITE", Tail(toIot[i]), Head(toIot[i])) /\
             (eofReads = 0 => Carries(Payloads, Tail(toIot[i]), Head(toIot[i])))
        /\ LastOf(Tail(toIot[i]), Head(toIot[i])) = LastOf(toIot[i], FirstTo(i)) /\
             Tail(toIot[i]) \in Seq(Messages)
    <3>1. toIot[i] \in Seq(Messages) /\ Framed("WRITE", toIot[i], FirstTo(i)) /\
            (eofReads = 0 => Carries(Payloads, toIot[i], FirstTo(i)))
      BY DEF NetTypes, RequestFrames
    <3> QED
      BY <2>1, <3>1, TakeFront
  <2>4. /\ iot[i] # Closed /\ iot'[i] # Closed /\
             (FirstTo(i)' = Head(toIot[i]) \/
               (~Wants("WRITE", FirstTo(i)') /\ ~Wants("WRITE", Head(toIot[i]))))
    <3>1. Head(toIot[i]) \in DataMessages /\ iot[i].at = "write"
      BY <1>19, FrontOfRequests DEF IotWrite
    <3>2. iot'[i].at = "ack"
      BY <1>19 DEF IotWrite, DeviceTypes, IotAt
    <3>3. FirstTo(i)' = Data(Zero)
      BY <3>2 DEF FirstTo, Data
    <3> QED
      BY <3>1, <3>2, <3>3 DEF Wants, Data, Closed, DataMessages
  <2>5. /\ Framed("WRITE", toIot'[i], FirstTo(i)')
        /\ eofReads = 0 => Carries(Payloads, toIot'[i], FirstTo(i)')
        /\ Wants("WRITE", LastOf(toIot[i], FirstTo(i))) =>
             LastOf(toIot'[i], FirstTo(i)') = LastOf(toIot[i], FirstTo(i))
        /\ Wants("WRITE", LastOf(toIot'[i], FirstTo(i)')) =>
             LastOf(toIot'[i], FirstTo(i)') = LastOf(toIot[i], FirstTo(i))
    <3>1. PICK s, first, other : s \in Seq(Messages) /\ s = Tail(toIot[i]) /\
            first = Head(toIot[i]) /\ other = FirstTo(i)'
      BY <2>3
    <3>2. CASE first = other
      BY <2>2, <2>3, <3>1, <3>2
    <3>3. CASE first # other
      <4>1. ~Wants("WRITE", first) /\ ~Wants("WRITE", other) /\ s \in Seq(Messages) /\
              Framed("WRITE", s, first) /\ (eofReads = 0 => Carries(Payloads, s, first))
        BY <2>3, <2>4, <3>1, <3>3
      <4>2. /\ Framed("WRITE", s, other) /\ (eofReads = 0 => Carries(Payloads, s, other))
            /\ Wants("WRITE", LastOf(s, first)) => LastOf(s, other) = LastOf(s, first)
            /\ Wants("WRITE", LastOf(s, other)) => LastOf(s, other) = LastOf(s, first)
        BY <4>1, ForgetFirst
      <4> QED
        BY <2>2, <2>3, <3>1, <4>2
    <3> QED
      BY <3>2, <3>3
  <2>6. \A v \in Workers : pc[v] = "sendData" => SendingTo(v)' = SendingTo(v) /\
          Sending(v)' = Sending(v) /\ SendingTo(v) \in Iots
    BY <2>1, SendingStays, CurrentFragment DEF Sends
  <2>7. RequestFrames'
    <3>1. ASSUME NEW d \in Iots
          PROVE  /\ Framed("WRITE", toIot'[d], FirstTo(d)') /\
                      (eofReads = 0 => Carries(Payloads, toIot'[d], FirstTo(d)'))
                 /\ iot'[d] = Closed => toIot'[d] = <<>>
                 /\ Wants("WRITE", LastOf(toIot'[d], FirstTo(d)')) =>
                      Wants("WRITE", LastOf(toIot[d], FirstTo(d)))
      BY <2>1, <2>2, <2>4, <2>5 DEF RequestFrames
    <3>2. ASSUME NEW d \in Iots, Wants("WRITE", LastOf(toIot'[d], FirstTo(d)'))
          PROVE  \E v \in Workers : pc'[v] = "sendData" /\ SendingTo(v)' = d
      <4>1. PICK v \in Workers : pc[v] = "sendData" /\ SendingTo(v) = d
        BY <3>1, <3>2 DEF RequestFrames
      <4> QED
        BY <2>1, <2>6, <4>1
    <3> QED
      BY <3>1, <3>2 DEF RequestFrames, Payloads, Payload
  <2>8. SendersOK'
    <3>1. ASSUME NEW v \in Workers, pc[v] = "sendData", iot'[SendingTo(v)] # Closed
          PROVE  LastOf(toIot'[SendingTo(v)'], FirstTo(SendingTo(v))') = Sending(v)'
      <4>1. PICK d \in Iots : d = SendingTo(v) /\ d = SendingTo(v)'
        BY <2>6, <3>1
      <4>2. iot[d] # Closed /\ LastOf(toIot[d], FirstTo(d)) = Sending(v)
        BY <2>1, <2>4, <3>1, <4>1 DEF SendersOK
      <4>3. Wants("WRITE", Sending(v))
        BY <3>1, CurrentFragment, MadeHeader DEF Wants, Sending, Sends, SendersOK
      <4>4. LastOf(toIot'[d], FirstTo(d)') = Sending(v)
        BY <2>2, <2>5, <4>2, <4>3
      <4>5. FirstTo(SendingTo(v))' = FirstTo(d)'
        BY <4>1 DEF FirstTo
      <4> QED
        BY <2>6, <3>1, <4>1, <4>4, <4>5
    <3> QED
      BY <2>1, <2>6, <3>1 DEF SendersOK, Closed
  <2> QED
    BY <2>7, <2>8
<1>20. ASSUME NEW i \in Iots, IotSendHeader(i) PROVE RequestFrames' /\ SendersOK'
  <2>1. QuietSenders
    BY <1>20 DEF IotSendHeader, QuietSenders, GoTo, WorkerTypes, SendersOK
  <2>2. QuietRequests
    BY <1>20 DEF IotSendHeader, QuietRequests, FirstTo, IotAt, IotIdle, Closed, DeviceTypes
  <2> QED
    BY <2>1, <2>2, QuietRequestFrames
<1>21. ASSUME NEW i \in Iots, IotSendData(i) PROVE RequestFrames' /\ SendersOK'
  <2>1. QuietSenders
    BY <1>21 DEF IotSendData, QuietSenders, GoTo, WorkerTypes, SendersOK
  <2>2. QuietRequests
    BY <1>21 DEF IotSendData, QuietRequests, FirstTo, IotAt, IotIdle, Closed, DeviceTypes
  <2> QED
    BY <2>1, <2>2, QuietRequestFrames
<1>22. ASSUME NEW i \in Iots, IotFail(i) PROVE RequestFrames' /\ SendersOK'
  <2>1. /\ UNCHANGED <<pc, held, frag, senderMutex, request>> /\ iot'[i] = Closed /\
             toIot'[i] = <<>>
        /\ \A d \in Iots \ {i} : iot'[d] = iot[d] /\ toIot'[d] = toIot[d]
    BY <1>22 DEF IotFail, DeviceTypes, NetTypes
  <2>2. FirstTo(i)' = Data(Zero) /\ \A d \in Iots \ {i} : FirstTo(d)' = FirstTo(d)
    BY <2>1 DEF FirstTo, Closed, Data
  <2>3. /\ Framed("WRITE", toIot'[i], FirstTo(i)')
        /\ eofReads = 0 => Carries(Payloads, toIot'[i], FirstTo(i)')
        /\ ~Wants("WRITE", LastOf(toIot'[i], FirstTo(i)'))
    <3>1. Len(<<>>) = 0
      BY EmptySeq
    <3> QED
      BY <2>1, <2>2, <3>1 DEF Framed, Carries, LastOf, Wants, Data
  <2>4. \A v \in Workers : pc[v] = "sendData" => SendingTo(v)' = SendingTo(v) /\
          Sending(v)' = Sending(v) /\ SendingTo(v) \in Iots
    BY <2>1, SendingStays, CurrentFragment DEF Sends
  <2>5. RequestFrames'
    <3>1. ASSUME NEW d \in Iots
          PROVE  /\ Framed("WRITE", toIot'[d], FirstTo(d)') /\
                      (eofReads = 0 => Carries(Payloads, toIot'[d], FirstTo(d)'))
                 /\ iot'[d] = Closed => toIot'[d] = <<>>
                 /\ Wants("WRITE", LastOf(toIot'[d], FirstTo(d)')) =>
                      Wants("WRITE", LastOf(toIot[d], FirstTo(d)))
      BY <2>1, <2>2, <2>3 DEF RequestFrames
    <3> QED
      BY <2>1, <2>4, <3>1 DEF RequestFrames, Closed, Payloads, Payload
  <2>6. SendersOK'
    <3>1. ASSUME NEW v \in Workers, pc[v] = "sendData", iot'[SendingTo(v)] # Closed
          PROVE  LastOf(toIot'[SendingTo(v)'], FirstTo(SendingTo(v))') = Sending(v)'
      <4>1. PICK d \in Iots : d = SendingTo(v) /\ d = SendingTo(v)'
        BY <2>4, <3>1
      <4>2. d # i /\ LastOf(toIot[d], FirstTo(d)) = Sending(v)
        BY <2>1, <3>1, <4>1 DEF SendersOK
      <4>3. FirstTo(SendingTo(v))' = FirstTo(d)'
        BY <4>1 DEF FirstTo
      <4> QED
        BY <2>1, <2>2, <2>4, <3>1, <4>1, <4>2, <4>3
    <3> QED
      BY <2>1, <2>4, <3>1 DEF SendersOK, Closed
  <2> QED
    BY <2>5, <2>6
<1>23. CASE UNCHANGED vars
  <2>1. QuietSenders /\ QuietRequests
    BY <1>23 DEF vars, QuietSenders, QuietRequests, FirstTo, SendersOK
  <2> QED
    BY <2>1, QuietRequestFrames
<1> QED
  BY <1>1, <1>2, <1>3, <1>4, <1>5, <1>6, <1>7, <1>8, <1>9, <1>10, <1>11, <1>12, <1>13,
     <1>14, <1>15, <1>16, <1>17, <1>18, <1>19, <1>20, <1>21, <1>22, <1>23
  DEF Next, Reactor, Worker, Iot, Stop

(***************************************************************************)
(* Every step keeps the streams from the devices framed.                   *)
(***************************************************************************)
LEMMA ReplyFramesKept ==
  ASSUME TypeInv, ServeInv, HeaderInv, FrameInv, [Next]_vars
  PROVE  ReplyFrames'
<1> USE DEF kernelVars, requestVars, reactorVars, workerVars, slicerVars, netVars, iotVars,
            iotUnchanged
<1>0. NetTypes /\ DeviceTypes /\ ReplyFrames /\ DeviceHeaders
  BY DEF TypeInv, FrameInv, HeaderInv
<1> USE <1>0
<1>1. ASSUME NEW h \in Handles, NEW s \in Shapes, KernelSubmit(h, s) PROVE ReplyFrames'
  <2>1. QuietReplies
    BY <1>1 DEF KernelSubmit, QuietReplies, FirstFrom
  <2> QED
    BY <2>1, QuietReplyFrames
<1>2. CASE KernelShutdown
  <2>1. QuietReplies
    BY <1>2 DEF KernelShutdown, QuietReplies, FirstFrom
  <2> QED
    BY <2>1, QuietReplyFrames
<1>3. CASE ManageRequests
  <2>1. QuietReplies
    BY <1>3 DEF ManageRequests, QuietReplies, FirstFrom, Select, Returning, Spinning
  <2> QED
    BY <2>1, QuietReplyFrames
<1>4. CASE ReactorReturn
  <2>1. QuietReplies
    BY <1>4 DEF ReactorReturn, QuietReplies, FirstFrom, Select, Returning, Spinning
  <2> QED
    BY <2>1, QuietReplyFrames
<1>5. CASE ReactorAtEof
  <2>1. QuietReplies
    BY <1>5 DEF ReactorAtEof, QuietReplies, FirstFrom, Select, Returning, Spinning
  <2> QED
    BY <2>1, QuietReplyFrames
<1>6. ASSUME NEW i \in Iots, ManageReplies(i) PROVE ReplyFrames'
  <2>1. UNCHANGED iot /\ fromIot' = [fromIot EXCEPT ![i] = Tail(fromIot[i])] /\ fromIot[i] # <<>>
    BY <1>6 DEF ManageReplies
  <2>2. fromIot'[i] = Tail(fromIot[i]) /\ \A d \in Iots \ {i} : fromIot'[d] = fromIot[d] /\
          FirstFrom(d)' = FirstFrom(d)
    BY <1>6, <2>1 DEF ManageReplies, NetTypes, FirstFrom, Select, ReadingData
  <2>3. /\ Framed("READ", Tail(fromIot[i]), Head(fromIot[i])) /\ Tail(fromIot[i]) \in Seq(Messages)
        /\ LastOf(Tail(fromIot[i]), Head(fromIot[i])) = LastOf(fromIot[i], FirstFrom(i))
    <3>1. fromIot[i] \in Seq(Messages) /\ Framed("READ", fromIot[i], FirstFrom(i))
      BY DEF NetTypes, ReplyFrames
    <3> QED
      BY <2>1, <3>1, TakeFront
  <2>4. FirstFrom(i)' = Head(fromIot[i]) \/
          (~Wants("READ", FirstFrom(i)') /\ ~Wants("READ", Head(fromIot[i])))
    <3>1. CASE Head(fromIot[i]).m_type = "READ"
      BY <1>6, <3>1 DEF ManageReplies, ReadingData, FirstFrom
    <3>2. CASE Head(fromIot[i]).m_type # "READ"
      <4>1. FirstFrom(i)' = Data(Zero)
        BY <1>6, <3>2 DEF ManageReplies, Select, FirstFrom, Data
      <4> QED
        BY <3>2, <4>1 DEF Wants, Data
    <3> QED
      BY <3>1, <3>2
  <2>5. /\ Framed("READ", fromIot'[i], FirstFrom(i)')
        /\ Wants("READ", LastOf(fromIot'[i], FirstFrom(i)')) <=>
             Wants("READ", LastOf(fromIot[i], FirstFrom(i)))
    <3>1. PICK s, first, other : s \in Seq(Messages) /\ s = Tail(fromIot[i]) /\
            first = Head(fromIot[i]) /\ other = FirstFrom(i)'
      BY <2>3
    <3>2. CASE first = other
      BY <2>2, <2>3, <3>1, <3>2
    <3>3. CASE first # other
      <4>1. ~Wants("READ", first) /\ ~Wants("READ", other) /\ s \in Seq(Messages) /\
              Framed("READ", s, first)
        BY <2>3, <2>4, <3>1, <3>3
      <4>2. Framed("READ", s, other) /\
              (Wants("READ", LastOf(s, first)) <=> Wants("READ", LastOf(s, other)))
        BY <4>1, ForgetFirst
      <4> QED
        BY <2>2, <2>3, <3>1, <4>2
    <3> QED
      BY <3>2, <3>3
  <2> QED
    BY <2>1, <2>2, <2>5 DEF ReplyFrames, Closed
<1>7. ASSUME NEW i \in Iots, ManageRepliesData(i) PROVE ReplyFrames'
  <2>1. CASE fromIot[i] # <<>> /\ fromIot' = [fromIot EXCEPT ![i] = Tail(fromIot[i])]
    <3>1. UNCHANGED iot /\ fromIot' = [fromIot EXCEPT ![i] = Tail(fromIot[i])] /\ fromIot[i] # <<>>
      BY <1>7, <2>1 DEF ManageRepliesData
    <3>2. fromIot'[i] = Tail(fromIot[i]) /\ \A d \in Iots \ {i} : fromIot'[d] = fromIot[d] /\
            FirstFrom(d)' = FirstFrom(d)
      BY <1>7, <3>1 DEF ManageRepliesData, NetTypes, FirstFrom, Select, ReadingData
    <3>3. /\ Framed("READ", Tail(fromIot[i]), Head(fromIot[i])) /\
               Tail(fromIot[i]) \in Seq(Messages)
          /\ LastOf(Tail(fromIot[i]), Head(fromIot[i])) = LastOf(fromIot[i], FirstFrom(i))
      <4>1. fromIot[i] \in Seq(Messages) /\ Framed("READ", fromIot[i], FirstFrom(i))
        BY DEF NetTypes, ReplyFrames
      <4> QED
        BY <3>1, <4>1, TakeFront
    <3>4. FirstFrom(i)' = Head(fromIot[i]) \/
            (~Wants("READ", FirstFrom(i)') /\ ~Wants("READ", Head(fromIot[i])))
      <4>1. Head(fromIot[i]) \in DataMessages
        BY <1>7, <2>1, FrontOfReplies DEF ManageRepliesData
      <4>2. FirstFrom(i)' = Data(Zero)
        BY <1>7 DEF ManageRepliesData, Select, FirstFrom, Data
      <4> QED
        BY <4>1, <4>2 DEF Wants, Data, DataMessages
    <3>5. /\ Framed("READ", fromIot'[i], FirstFrom(i)')
          /\ Wants("READ", LastOf(fromIot'[i], FirstFrom(i)')) <=>
               Wants("READ", LastOf(fromIot[i], FirstFrom(i)))
      <4>1. PICK s, first, other : s \in Seq(Messages) /\ s = Tail(fromIot[i]) /\
              first = Head(fromIot[i]) /\ other = FirstFrom(i)'
        BY <3>3
      <4>2. CASE first = other
        BY <3>2, <3>3, <4>1, <4>2
      <4>3. CASE first # other
        <5>1. ~Wants("READ", first) /\ ~Wants("READ", other) /\ s \in Seq(Messages) /\
                Framed("READ", s, first)
          BY <3>3, <3>4, <4>1, <4>3
        <5>2. Framed("READ", s, other) /\
                (Wants("READ", LastOf(s, first)) <=> Wants("READ", LastOf(s, other)))
          BY <5>1, ForgetFirst
        <5> QED
          BY <3>2, <3>3, <4>1, <5>2
      <4> QED
        BY <4>2, <4>3
    <3> QED
      BY <3>1, <3>2, <3>5 DEF ReplyFrames, Closed
  <2>2. CASE AtEof(i) /\ UNCHANGED fromIot
    <3>1. UNCHANGED iot /\ \A d \in Iots \ {i} : FirstFrom(d)' = FirstFrom(d)
      BY <1>7 DEF ManageRepliesData, FirstFrom, Select
    <3>2. Len(<<>>) = 0
      BY EmptySeq
    <3>3. iot[i] = Closed /\ Framed("READ", fromIot'[i], FirstFrom(i)')
      BY <2>2, <3>2 DEF AtEof, Framed
    <3> QED
      BY <2>2, <3>1, <3>3 DEF ReplyFrames, Closed
  <2> QED
    BY <1>7, <2>1, <2>2 DEF ManageRepliesData
<1>8. ASSUME NEW i \in Iots, ManageRepliesEof(i) PROVE ReplyFrames'
  <2>1. QuietReplies
    BY <1>8 DEF ManageRepliesEof, QuietReplies, FirstFrom
  <2> QED
    BY <2>1, QuietReplyFrames
<1>9. ASSUME NEW w \in Workers, Pop(w) PROVE ReplyFrames'
  <2>1. QuietReplies
    BY <1>9 DEF Pop, QuietReplies, FirstFrom
  <2> QED
    BY <2>1, QuietReplyFrames
<1>10. ASSUME NEW w \in Workers, Slice(w) PROVE ReplyFrames'
  <2>1. QuietReplies
    BY <1>10 DEF Slice, QuietReplies, FirstFrom
  <2> QED
    BY <2>1, QuietReplyFrames
<1>11. ASSUME NEW w \in Workers, InsertSlicer(w) PROVE ReplyFrames'
  <2>1. QuietReplies
    BY <1>11 DEF InsertSlicer, QuietReplies, FirstFrom
  <2> QED
    BY <2>1, QuietReplyFrames
<1>12. ASSUME NEW w \in Workers, SenderLock(w) PROVE ReplyFrames'
  <2>1. QuietReplies
    BY <1>12 DEF SenderLock, QuietReplies, FirstFrom
  <2> QED
    BY <2>1, QuietReplyFrames
<1>13. ASSUME NEW w \in Workers, SendHeader(w) PROVE ReplyFrames'
  <2>1. QuietReplies
    BY <1>13 DEF SendHeader, QuietReplies, FirstFrom
  <2> QED
    BY <2>1, QuietReplyFrames
<1>14. ASSUME NEW w \in Workers, SendData(w) PROVE ReplyFrames'
  <2>1. QuietReplies
    BY <1>14 DEF SendData, QuietReplies, FirstFrom
  <2> QED
    BY <2>1, QuietReplyFrames
<1>15. ASSUME NEW w \in Workers, SendFails(w) PROVE ReplyFrames'
  <2>1. QuietReplies
    BY <1>15 DEF SendFails, QuietReplies, FirstFrom
  <2> QED
    BY <2>1, QuietReplyFrames
<1>16. ASSUME NEW w \in Workers, Reply(w) PROVE ReplyFrames'
  <2>1. QuietReplies
    BY <1>16 DEF Reply, QuietReplies, FirstFrom
  <2> QED
    BY <2>1, QuietReplyFrames
<1>17. ASSUME NEW w \in Workers, Release(w) PROVE ReplyFrames'
  <2>1. QuietReplies
    BY <1>17 DEF Release, QuietReplies, FirstFrom
  <2> QED
    BY <2>1, QuietReplyFrames
<1>18. ASSUME NEW i \in Iots, IotReadHeader(i) PROVE ReplyFrames'
  <2>1. QuietReplies
    BY <1>18 DEF IotReadHeader, QuietReplies, FirstFrom, IotAt, Closed, DeviceTypes
  <2> QED
    BY <2>1, QuietReplyFrames
<1>19. ASSUME NEW i \in Iots, IotWrite(i) PROVE ReplyFrames'
  <2>1. QuietReplies
    BY <1>19 DEF IotWrite, QuietReplies, FirstFrom, IotAt, Closed, DeviceTypes
  <2> QED
    BY <2>1, QuietReplyFrames
<1>20. ASSUME NEW i \in Iots, IotSendHeader(i) PROVE ReplyFrames'
  <2>1. PICK m \in Messages : m = iot[i].header /\ m.kind = "header" /\
          m.m_type = IF iot[i].at = "read" THEN "READ" ELSE "WRITE"
    BY <1>20 DEF IotSendHeader, DeviceHeaders, WasSent, IsHeader, Headers, Messages
  <2>2. iot[i].at \in {"read", "ack"} /\ iot[i] # Closed
    BY <1>20 DEF IotSendHeader, Closed
  <2>3. fromIot'[i] = Append(fromIot[i], m) /\
          \A d \in Iots \ {i} : fromIot'[d] = fromIot[d] /\ iot'[d] = iot[d]
    BY <1>20, <2>1 DEF IotSendHeader, NetTypes, DeviceTypes
  <2>4. \A d \in Iots : FirstFrom(d)' = FirstFrom(d)
    BY <1>20 DEF IotSendHeader, FirstFrom
  <2>5. Framed("READ", Append(fromIot[i], m), FirstFrom(i)) /\
          LastOf(Append(fromIot[i], m), FirstFrom(i)) = m
    <3>1. fromIot[i] \in Seq(Messages) /\ Framed("READ", fromIot[i], FirstFrom(i)) /\
            (m.kind = "data" <=> Wants("READ", LastOf(fromIot[i], FirstFrom(i))))
      BY <2>1, <2>2 DEF NetTypes, ReplyFrames
    <3> QED
      BY <2>1, <3>1, PutEnd
  <2>6. Wants("READ", m) <=> iot'[i].at = "sendData"
    <3>1. iot'[i] = IF iot[i].at = "read" THEN IotAt("sendData", m) ELSE IotIdle
      BY <1>20, <2>1 DEF IotSendHeader, DeviceTypes
    <3> QED
      BY <2>1, <3>1 DEF Wants, IotAt, IotIdle
  <2> QED
    BY <2>3, <2>4, <2>5, <2>6 DEF ReplyFrames, Closed
<1>21. ASSUME NEW i \in Iots, IotSendData(i) PROVE ReplyFrames'
  <2>1. PICK m \in Messages : m = Data(storage[i][iot[i].header.m_iotOffset]) /\ m.kind = "data"
    <3>1. iot[i].header.m_iotOffset \in Offsets
      BY <1>21 DEF IotSendData, DeviceHeaders, WasSent, IsHeader, Headers
    <3>2. storage[i][iot[i].header.m_iotOffset] \in Bytes
      BY <3>1 DEF DeviceTypes
    <3>3. PICK v \in Bytes : v = storage[i][iot[i].header.m_iotOffset]
      BY <3>2
    <3>4. Data(v) \in Messages /\ Data(v).kind = "data"
      BY DEF Messages, Data, DataMessages
    <3> QED
      BY <3>3, <3>4
  <2>2. iot[i].at = "sendData" /\ iot[i] # Closed
    BY <1>21 DEF IotSendData, Closed
  <2>3. fromIot'[i] = Append(fromIot[i], m) /\
          \A d \in Iots \ {i} : fromIot'[d] = fromIot[d] /\ iot'[d] = iot[d]
    BY <1>21, <2>1 DEF IotSendData, NetTypes, DeviceTypes
  <2>4. \A d \in Iots : FirstFrom(d)' = FirstFrom(d)
    BY <1>21 DEF IotSendData, FirstFrom
  <2>5. Framed("READ", Append(fromIot[i], m), FirstFrom(i)) /\
          LastOf(Append(fromIot[i], m), FirstFrom(i)) = m
    <3>1. fromIot[i] \in Seq(Messages) /\ Framed("READ", fromIot[i], FirstFrom(i)) /\
            (m.kind = "data" <=> Wants("READ", LastOf(fromIot[i], FirstFrom(i))))
      BY <2>1, <2>2 DEF NetTypes, ReplyFrames
    <3> QED
      BY <2>1, <3>1, PutEnd
  <2>6. Wants("READ", m) <=> iot'[i].at = "sendData"
    <3>1. iot'[i] = IotIdle
      BY <1>21 DEF IotSendData, DeviceTypes
    <3> QED
      BY <2>1, <3>1 DEF Wants, IotIdle
  <2> QED
    BY <2>3, <2>4, <2>5, <2>6 DEF ReplyFrames, Closed
<1>22. ASSUME NEW i \in Iots, IotFail(i) PROVE ReplyFrames'
  <2>1. /\ iot'[i] = Closed
        /\ \A d \in Iots \ {i} : iot'[d] = iot[d] /\ fromIot'[d] = fromIot[d]
    BY <1>22 DEF IotFail, DeviceTypes, NetTypes
  <2>2. \A d \in Iots : FirstFrom(d)' = FirstFrom(d)
    BY <1>22 DEF IotFail, FirstFrom
  <2>3. PICK n \in 0 .. Len(fromIot[i]) : fromIot'[i] = SubSeq(fromIot[i], 1, n)
    BY <1>22 DEF IotFail, NetTypes
  <2>4. Framed("READ", fromIot'[i], FirstFrom(i))
    <3>1. Len(fromIot'[i]) = n /\ \A j \in 1 .. n : j \in 1 .. Len(fromIot[i]) /\
            fromIot'[i][j] = fromIot[i][j]
      BY <2>3, CutOne DEF NetTypes
    <3>2. \A j \in 1 .. n : Before(fromIot'[i], FirstFrom(i), j) = Before(fromIot[i], FirstFrom(i), j)
      BY <3>1 DEF Before
    <3> QED
      BY <3>1, <3>2 DEF ReplyFrames, Framed
  <2> QED
    BY <2>1, <2>2, <2>4 DEF ReplyFrames, Closed
<1>23. CASE UNCHANGED vars
  <2>1. QuietReplies
    BY <1>23 DEF vars, QuietReplies, FirstFrom
  <2> QED
    BY <2>1, QuietReplyFrames
<1> QED
  BY <1>1, <1>2, <1>3, <1>4, <1>5, <1>6, <1>7, <1>8, <1>9, <1>10, <1>11, <1>12, <1>13,
     <1>14, <1>15, <1>16, <1>17, <1>18, <1>19, <1>20, <1>21, <1>22, <1>23
  DEF Next, Reactor, Worker, Iot, Stop

(***************************************************************************)
(* A header is sent once.                                                  *)
(***************************************************************************)
LEMMA OnceKept ==
  ASSUME TypeInv, ServeInv, HeaderInv, FrameInv, OnceInv, [Next]_vars
  PROVE  OnceInv'
<1> USE DEF kernelVars, requestVars, reactorVars, workerVars, slicerVars, netVars, iotVars,
            iotUnchanged
<1>0. NetTypes /\ DeviceTypes /\ WorkerTypes /\ RequestHeaders /\ DeviceHeaders
  BY DEF TypeInv, HeaderInv
<1> USE <1>0
<1>1. ASSUME NEW h \in Handles, NEW s \in Shapes, KernelSubmit(h, s) PROVE OnceInv'
  BY <1>1 DEF KernelSubmit, OnceInv
<1>2. CASE KernelShutdown
  BY <1>2 DEF KernelShutdown, OnceInv
<1>3. CASE ManageRequests
  BY <1>3 DEF ManageRequests, OnceInv
<1>4. CASE ReactorReturn
  BY <1>4 DEF ReactorReturn, OnceInv
<1>5. CASE ReactorAtEof
  BY <1>5 DEF ReactorAtEof, OnceInv
<1>6. ASSUME NEW i \in Iots, ManageReplies(i) PROVE OnceInv'
  BY <1>6 DEF ManageReplies, OnceInv
<1>7. ASSUME NEW i \in Iots, ManageRepliesData(i) PROVE OnceInv'
  BY <1>7 DEF ManageRepliesData, OnceInv
<1>8. ASSUME NEW i \in Iots, ManageRepliesEof(i) PROVE OnceInv'
  BY <1>8 DEF ManageRepliesEof, OnceInv
<1>9. ASSUME NEW w \in Workers, Pop(w) PROVE OnceInv'
  BY <1>9 DEF Pop, OnceInv
<1>10. ASSUME NEW w \in Workers, Slice(w) PROVE OnceInv'
  BY <1>10 DEF Slice, OnceInv
<1>11. ASSUME NEW w \in Workers, InsertSlicer(w) PROVE OnceInv'
  BY <1>11 DEF InsertSlicer, OnceInv
<1>12. ASSUME NEW w \in Workers, SenderLock(w) PROVE OnceInv'
  BY <1>12 DEF SenderLock, OnceInv
<1>13. ASSUME NEW w \in Workers, SendHeader(w) PROVE OnceInv'
  <2>1. PICK d \in Iots, m \in Messages : d = SendingTo(w) /\ m = Sending(w)
    BY <1>13, CurrentFragment DEF SendHeader, Sends, Messages, DataMessages, Data
  <2>2. CASE UNCHANGED toIot
    BY <1>13, <2>2 DEF SendHeader, OnceInv
  <2>3. CASE toIot' = [toIot EXCEPT ![d] = Append(toIot[d], m)]
    <3>1. /\ toIot'[d] = Append(toIot[d], m) /\ \A i \in Iots \ {d} : toIot'[i] = toIot[i]
      BY <2>3 DEF NetTypes
    <3>2. /\ Len(toIot[d]) \in Nat /\ toIot'[d][Len(toIot[d]) + 1] = m /\
               Len(toIot'[d]) = Len(toIot[d]) + 1
          /\ \A j \in 1 .. Len(toIot[d]) : toIot'[d][j] = toIot[d][j]
      BY <3>1, PutOne DEF NetTypes
    <3>3. \A j \in 1 .. Len(toIot'[d]) : j \in 1 .. Len(toIot[d]) \/ j = Len(toIot[d]) + 1
      BY <3>2
    <3>4. iot' = iot
      BY <1>13 DEF SendHeader
    <3>5. /\ m.kind = "header" => \A j \in 1 .. Len(toIot[d]) : toIot[d][j] # m
          /\ iot[d].at \in {"read", "write", "ack", "sendData"} => m # iot[d].header
      <4>1. m.owner = held[w] /\ m.m_fragmentIdx = frag[w] /\ frag[w] \in Nat
        BY <1>13, <2>1, CurrentFragment, MadeHeader DEF SendHeader, Sending, Sends
      <4>2. ~IsSent(m) /\ ~WasSent(m)
        BY <1>13, <4>1 DEF SendHeader, IsSent, WasSent, Serves, Sends, NextFrag
      <4> QED
        BY <4>2 DEF RequestHeaders, DeviceHeaders
    <3>6. ASSUME NEW i \in Iots, NEW j \in 1 .. Len(toIot'[i]), NEW k \in 1 .. Len(toIot'[i]),
                 toIot'[i][j].kind = "header", toIot'[i][j] = toIot'[i][k]
          PROVE  j = k
      <4>1. CASE i # d
        BY <3>1, <3>6, <4>1 DEF OnceInv
      <4>2. CASE i = d
        <5>1. (j \in 1 .. Len(toIot[d]) \/ j = Len(toIot[d]) + 1) /\
                (k \in 1 .. Len(toIot[d]) \/ k = Len(toIot[d]) + 1)
          BY <3>3, <3>6, <4>2
        <5>2. CASE j \in 1 .. Len(toIot[d]) /\ k \in 1 .. Len(toIot[d])
          <6>1. toIot[d][j].kind = "header" /\ toIot[d][j] = toIot[d][k]
            BY <3>2, <3>6, <4>2, <5>2
          <6> QED
            BY <5>2, <6>1 DEF OnceInv
        <5>3. CASE j \in 1 .. Len(toIot[d]) /\ k = Len(toIot[d]) + 1
          <6>1. toIot[d][j].kind = "header" /\ toIot[d][j] = m
            BY <3>2, <3>6, <4>2, <5>3
          <6> QED
            BY <3>5, <5>3, <6>1
        <5>4. CASE k \in 1 .. Len(toIot[d]) /\ j = Len(toIot[d]) + 1
          <6>1. m.kind = "header" /\ toIot[d][k] = m
            BY <3>2, <3>6, <4>2, <5>4
          <6> QED
            BY <3>5, <5>4, <6>1
        <5> QED
          BY <5>1, <5>2, <5>3, <5>4
      <4> QED
        BY <4>1, <4>2
    <3>7. ASSUME NEW i \in Iots, NEW j \in 1 .. Len(toIot'[i]),
                 iot'[i].at \in {"read", "write", "ack", "sendData"}
          PROVE  toIot'[i][j] # iot'[i].header
      <4>1. CASE i # d
        BY <3>1, <3>4, <3>7, <4>1 DEF OnceInv
      <4>2. CASE i = d
        BY <3>2, <3>3, <3>4, <3>5, <3>7, <4>2 DEF OnceInv
      <4> QED
        BY <4>1, <4>2
    <3> QED
      BY <3>6, <3>7 DEF OnceInv
  <2> QED
    BY <1>13, <2>1, <2>2, <2>3, CurrentFragment DEF SendHeader, SendTo, Sends
<1>14. ASSUME NEW w \in Workers, SendData(w) PROVE OnceInv'
  <2>1. PICK d \in Iots, m \in Messages : d = SendingTo(w) /\ m = Data(Current(w).bytes)
    BY <1>14, CurrentFragment DEF SendData, Sends, Messages, DataMessages, Data
  <2>2. CASE UNCHANGED toIot
    BY <1>14, <2>2 DEF SendData, OnceInv
  <2>3. CASE toIot' = [toIot EXCEPT ![d] = Append(toIot[d], m)]
    <3>1. /\ toIot'[d] = Append(toIot[d], m) /\ \A i \in Iots \ {d} : toIot'[i] = toIot[i]
      BY <2>3 DEF NetTypes
    <3>2. /\ Len(toIot[d]) \in Nat /\ toIot'[d][Len(toIot[d]) + 1] = m /\
               Len(toIot'[d]) = Len(toIot[d]) + 1
          /\ \A j \in 1 .. Len(toIot[d]) : toIot'[d][j] = toIot[d][j]
      BY <3>1, PutOne DEF NetTypes
    <3>3. \A j \in 1 .. Len(toIot'[d]) : j \in 1 .. Len(toIot[d]) \/ j = Len(toIot[d]) + 1
      BY <3>2
    <3>4. iot' = iot
      BY <1>14 DEF SendData
    <3>5. /\ m.kind = "header" => \A j \in 1 .. Len(toIot[d]) : toIot[d][j] # m
          /\ iot[d].at \in {"read", "write", "ack", "sendData"} => m # iot[d].header
      <4>1. m.kind = "data"
        BY <2>1 DEF Data
      <4>2. iot[d].at \in {"read", "write", "ack", "sendData"} => iot[d].header.kind = "header"
        BY DEF DeviceHeaders, IsSent, WasSent, IsHeader, Headers
      <4> QED
        BY <4>1, <4>2
    <3>6. ASSUME NEW i \in Iots, NEW j \in 1 .. Len(toIot'[i]), NEW k \in 1 .. Len(toIot'[i]),
                 toIot'[i][j].kind = "header", toIot'[i][j] = toIot'[i][k]
          PROVE  j = k
      <4>1. CASE i # d
        BY <3>1, <3>6, <4>1 DEF OnceInv
      <4>2. CASE i = d
        <5>1. (j \in 1 .. Len(toIot[d]) \/ j = Len(toIot[d]) + 1) /\
                (k \in 1 .. Len(toIot[d]) \/ k = Len(toIot[d]) + 1)
          BY <3>3, <3>6, <4>2
        <5>2. CASE j \in 1 .. Len(toIot[d]) /\ k \in 1 .. Len(toIot[d])
          <6>1. toIot[d][j].kind = "header" /\ toIot[d][j] = toIot[d][k]
            BY <3>2, <3>6, <4>2, <5>2
          <6> QED
            BY <5>2, <6>1 DEF OnceInv
        <5>3. CASE j \in 1 .. Len(toIot[d]) /\ k = Len(toIot[d]) + 1
          <6>1. toIot[d][j].kind = "header" /\ toIot[d][j] = m
            BY <3>2, <3>6, <4>2, <5>3
          <6> QED
            BY <3>5, <5>3, <6>1
        <5>4. CASE k \in 1 .. Len(toIot[d]) /\ j = Len(toIot[d]) + 1
          <6>1. m.kind = "header" /\ toIot[d][k] = m
            BY <3>2, <3>6, <4>2, <5>4
          <6> QED
            BY <3>5, <5>4, <6>1
        <5> QED
          BY <5>1, <5>2, <5>3, <5>4
      <4> QED
        BY <4>1, <4>2
    <3>7. ASSUME NEW i \in Iots, NEW j \in 1 .. Len(toIot'[i]),
                 iot'[i].at \in {"read", "write", "ack", "sendData"}
          PROVE  toIot'[i][j] # iot'[i].header
      <4>1. CASE i # d
        BY <3>1, <3>4, <3>7, <4>1 DEF OnceInv
      <4>2. CASE i = d
        BY <3>2, <3>3, <3>4, <3>5, <3>7, <4>2 DEF OnceInv
      <4> QED
        BY <4>1, <4>2
    <3> QED
      BY <3>6, <3>7 DEF OnceInv
  <2> QED
    BY <1>14, <2>1, <2>2, <2>3, CurrentFragment DEF SendData, SendTo, Sends
<1>15. ASSUME NEW w \in Workers, SendFails(w) PROVE OnceInv'
  BY <1>15 DEF SendFails, OnceInv
<1>16. ASSUME NEW w \in Workers, Reply(w) PROVE OnceInv'
  BY <1>16 DEF Reply, OnceInv
<1>17. ASSUME NEW w \in Workers, Release(w) PROVE OnceInv'
  BY <1>17 DEF Release, OnceInv
<1>18. ASSUME NEW i \in Iots, IotReadHeader(i) PROVE OnceInv'
  <2>1. /\ toIot'[i] = Tail(toIot[i]) /\ \A d \in Iots \ {i} : toIot'[d] = toIot[d] /\
             iot'[d] = iot[d]
    BY <1>18 DEF IotReadHeader, NetTypes, DeviceTypes
  <2>2. /\ Head(toIot[i]) = toIot[i][1] /\ Len(toIot[i]) >= 1 /\ Len(toIot[i]) \in Nat
        /\ \A j \in 1 .. Len(toIot'[i]) : j + 1 \in 1 .. Len(toIot[i]) /\
             toIot'[i][j] = toIot[i][j + 1]
    BY <1>18, <2>1, TakeOne DEF IotReadHeader, NetTypes
  <2>3. iot'[i].header = Head(toIot[i]) /\ Head(toIot[i]).kind = "header" /\
          \A j \in 1 .. Len(toIot'[i]) : j + 1 # 1 /\ 1 \in 1 .. Len(toIot[i])
    <3>1. Head(toIot[i]).kind = "header"
      BY <1>18, FrontOfRequests DEF IotReadHeader, Headers
    <3>2. iot'[i].header = Head(toIot[i])
      BY <1>18 DEF IotReadHeader, IotAt, DeviceTypes
    <3>3. \A j \in 1 .. Len(toIot'[i]) : j + 1 # 1 /\ 1 \in 1 .. Len(toIot[i])
      BY <2>2
    <3> QED
      BY <3>1, <3>2, <3>3
  <2>4. ASSUME NEW d \in Iots, NEW j \in 1 .. Len(toIot'[d]), NEW k \in 1 .. Len(toIot'[d]),
               toIot'[d][j].kind = "header", toIot'[d][j] = toIot'[d][k]
        PROVE  j = k
    <3>1. CASE d # i
      BY <2>1, <2>4, <3>1 DEF OnceInv
    <3>2. CASE d = i
      <4>1. j + 1 \in 1 .. Len(toIot[i]) /\ toIot'[i][j] = toIot[i][j + 1]
        BY <2>2, <2>4, <3>2
      <4>2. k + 1 \in 1 .. Len(toIot[i]) /\ toIot'[i][k] = toIot[i][k + 1]
        BY <2>2, <2>4, <3>2
      <4>3. toIot[i][j + 1].kind = "header" /\ toIot[i][j + 1] = toIot[i][k + 1]
        BY <2>4, <3>2, <4>1, <4>2
      <4>4. j + 1 = k + 1
        BY <4>1, <4>2, <4>3 DEF OnceInv
      <4> QED
        BY <2>4, <4>4
    <3> QED
      BY <3>1, <3>2
  <2>5. ASSUME NEW d \in Iots, NEW j \in 1 .. Len(toIot'[d]),
               iot'[d].at \in {"read", "write", "ack", "sendData"}
        PROVE  toIot'[d][j] # iot'[d].header
    <3>1. CASE d # i
      BY <2>1, <2>5, <3>1 DEF OnceInv
    <3>2. CASE d = i
      BY <2>2, <2>3, <2>5, <3>2 DEF OnceInv
    <3> QED
      BY <3>1, <3>2
  <2> QED
    BY <2>4, <2>5 DEF OnceInv
<1>19. ASSUME NEW i \in Iots, IotWrite(i) PROVE OnceInv'
  <2>1. /\ toIot'[i] = Tail(toIot[i]) /\ \A d \in Iots \ {i} : toIot'[d] = toIot[d] /\
             iot'[d] = iot[d]
    BY <1>19 DEF IotWrite, NetTypes, DeviceTypes
  <2>2. /\ Head(toIot[i]) = toIot[i][1] /\ Len(toIot[i]) >= 1 /\ Len(toIot[i]) \in Nat
        /\ \A j \in 1 .. Len(toIot'[i]) : j + 1 \in 1 .. Len(toIot[i]) /\
             toIot'[i][j] = toIot[i][j + 1]
    BY <1>19, <2>1, TakeOne DEF IotWrite, NetTypes
  <2>3. iot'[i].header = iot[i].header /\ iot[i].at = "write"
    BY <1>19 DEF IotWrite, IotAt, DeviceTypes
  <2>4. ASSUME NEW d \in Iots, NEW j \in 1 .. Len(toIot'[d]), NEW k \in 1 .. Len(toIot'[d]),
               toIot'[d][j].kind = "header", toIot'[d][j] = toIot'[d][k]
        PROVE  j = k
    <3>1. CASE d # i
      BY <2>1, <2>4, <3>1 DEF OnceInv
    <3>2. CASE d = i
      <4>1. j + 1 \in 1 .. Len(toIot[i]) /\ toIot'[i][j] = toIot[i][j + 1]
        BY <2>2, <2>4, <3>2
      <4>2. k + 1 \in 1 .. Len(toIot[i]) /\ toIot'[i][k] = toIot[i][k + 1]
        BY <2>2, <2>4, <3>2
      <4>3. toIot[i][j + 1].kind = "header" /\ toIot[i][j + 1] = toIot[i][k + 1]
        BY <2>4, <3>2, <4>1, <4>2
      <4>4. j + 1 = k + 1
        BY <4>1, <4>2, <4>3 DEF OnceInv
      <4> QED
        BY <2>4, <4>4
    <3> QED
      BY <3>1, <3>2
  <2>5. ASSUME NEW d \in Iots, NEW j \in 1 .. Len(toIot'[d]),
               iot'[d].at \in {"read", "write", "ack", "sendData"}
        PROVE  toIot'[d][j] # iot'[d].header
    <3>1. CASE d # i
      BY <2>1, <2>5, <3>1 DEF OnceInv
    <3>2. CASE d = i
      BY <2>2, <2>3, <2>5, <3>2 DEF OnceInv
    <3> QED
      BY <3>1, <3>2
  <2> QED
    BY <2>4, <2>5 DEF OnceInv
<1>20. ASSUME NEW i \in Iots, IotSendHeader(i) PROVE OnceInv'
  <2>1. UNCHANGED toIot
    BY <1>20 DEF IotSendHeader
  <2>2. \A d \in Iots : iot'[d].at \in {"read", "write", "ack", "sendData"} =>
          iot[d].at \in {"read", "write", "ack", "sendData"} /\ iot'[d].header = iot[d].header
    <3>1. IotIdle.at = "header" /\ \A m : IotAt("sendData", m).header = m
      BY DEF IotIdle, IotAt
    <3> QED
      BY <1>20, <3>1 DEF IotSendHeader, DeviceTypes
  <2> QED
    BY <2>1, <2>2 DEF OnceInv
<1>21. ASSUME NEW i \in Iots, IotSendData(i) PROVE OnceInv'
  <2>1. UNCHANGED toIot
    BY <1>21 DEF IotSendData
  <2>2. \A d \in Iots : iot'[d].at \in {"read", "write", "ack", "sendData"} =>
          iot[d].at \in {"read", "write", "ack", "sendData"} /\ iot'[d].header = iot[d].header
    <3>1. IotIdle.at = "header" /\ \A m : IotAt("sendData", m).header = m
      BY DEF IotIdle, IotAt
    <3> QED
      BY <1>21, <3>1 DEF IotSendData, DeviceTypes
  <2> QED
    BY <2>1, <2>2 DEF OnceInv
<1>22. ASSUME NEW i \in Iots, IotFail(i) PROVE OnceInv'
  <2>1. \A d \in Iots : (toIot'[d] = toIot[d] /\ iot'[d] = iot[d]) \/ toIot'[d] = <<>>
    BY <1>22 DEF IotFail, NetTypes, DeviceTypes
  <2>2. Len(<<>>) = 0
    BY EmptySeq
  <2>3. \A d \in Iots : \A j \in 1 .. Len(toIot'[d]) : toIot'[d] = toIot[d] /\ iot'[d] = iot[d]
    BY <2>1, <2>2
  <2> QED
    BY <2>3 DEF OnceInv
<1>23. CASE UNCHANGED vars
  BY <1>23 DEF vars, OnceInv
<1> QED
  BY <1>1, <1>2, <1>3, <1>4, <1>5, <1>6, <1>7, <1>8, <1>9, <1>10, <1>11, <1>12, <1>13,
     <1>14, <1>15, <1>16, <1>17, <1>18, <1>19, <1>20, <1>21, <1>22, <1>23
  DEF Next, Reactor, Worker, Iot, Stop

(***************************************************************************)
(* The buffer of a WRITE, when no step touches what has not been sent.     *)
(***************************************************************************)
Untouched ==
  /\ \A h \in Handles : RequestTask(h) \in tasks' => RequestTask(h) \in tasks
  /\ \A h \in Handles : RequestTask(h) \in tasks => buffer'[h] = buffer[h]
  /\ \A w \in Workers : Serves(w) =>
       \A k \in Blocks(request[held[w]]) : k >= NextFrag(w) =>
         buffer'[held[w]][k] = buffer[held[w]][k]

\* A step that writes to no buffer yet to be sent keeps the bytes of the WRITEs.
LEMMA UntouchedBuffers ==
  ASSUME TypeInv, ServeInv, BufferInv, TypeInv', ServeInv', [Next]_vars, Untouched
  PROVE  BufferInv'
<1> SUFFICES ASSUME eofReads' = 0 PROVE BufferInv'
  BY DEF BufferInv
<1>0. eofReads = 0
  BY MadeUpWhenBroken
<1> USE <1>0
<1>1. ASSUME NEW h \in Handles, request[h] # Unset
      PROVE  request'[h] = request[h] /\ \A k \in Blocks(request[h]) : k \in Nat
  <2>1. request'[h] = request[h] /\ request[h] \in Shapes
    BY <1>1, RequestsStay DEF Stays, TypeInv, KernelTypes
  <2> QED
    BY <2>1, ShapeFacts
<1>2. ASSUME NEW h \in Handles, RequestTask(h) \in tasks', request'[h].type = "WRITE"
      PROVE  \A k \in Blocks(request'[h]) : buffer'[h][k] = Payload(h, k)
  <2>1. RequestTask(h) \in tasks /\ request[h] # Unset /\ buffer'[h] = buffer[h]
    BY <1>2 DEF Untouched, ServeInv, TasksOK, HasBuffer
  <2> QED
    BY <1>1, <1>2, <2>1 DEF BufferInv
<1>3. ASSUME NEW w \in Workers, Serves(w)', request'[held'[w]].type = "WRITE",
             NEW k \in Blocks(request'[held'[w]]), k >= NextFrag(w)'
      PROVE  buffer'[held'[w]][k] = Payload(held'[w], k)
  <2>1. PICK h \in Handles : h = held'[w]
    BY <1>3 DEF ServeInv, WorkersOK
  <2>2. CASE RequestTask(h) \in tasks
    <3>1. request[h] # Unset /\ buffer'[h] = buffer[h]
      BY <2>2 DEF Untouched, ServeInv, TasksOK, HasBuffer
    <3> QED
      BY <1>1, <1>3, <2>1, <2>2, <3>1 DEF BufferInv
  <2>3. CASE RequestTask(h) \notin tasks
    <3>1. /\ Serves(w) /\ held[w] = h /\ (Sends(w) => Sends(w)' /\ frag'[w] >= frag[w])
      BY <1>3, <2>1, <2>3, ServersGetFurther DEF Further
    <3>2. request[h] # Unset
      BY <3>1 DEF ServeInv, WorkersOK, HasBuffer
    <3>3. request'[h] = request[h] /\ k \in Blocks(request[h]) /\ k \in Nat
      BY <1>1, <1>3, <2>1, <3>2
    <3>4. frag[w] \in Nat /\ frag'[w] \in Nat
      BY DEF TypeInv, WorkerTypes
    <3>5. k >= NextFrag(w)
      BY <1>3, <3>1, <3>3, <3>4 DEF NextFrag
    <3> QED
      BY <1>3, <2>1, <3>1, <3>3, <3>5 DEF BufferInv, Untouched
  <2> QED
    BY <2>2, <2>3
<1> QED
  BY <1>2, <1>3 DEF BufferInv

(***************************************************************************)
(* No step touches the bytes of a WRITE before they are sent.              *)
(***************************************************************************)
LEMMA BuffersKept ==
  ASSUME TypeInv, ServeInv, UidInv, HeaderInv, BufferInv, TypeInv', ServeInv', [Next]_vars
  PROVE  BufferInv'
<1> USE DEF kernelVars, requestVars, reactorVars, workerVars, slicerVars, netVars, iotVars,
            iotUnchanged
<1> SUFFICES ASSUME eofReads' = 0 PROVE BufferInv'
  BY DEF BufferInv
<1>0. eofReads = 0
  BY MadeUpWhenBroken
<1> USE <1>0
<1>1. ASSUME NEW h \in Handles, NEW s \in Shapes, KernelSubmit(h, s) PROVE BufferInv'
  <2>1. Untouched
    BY <1>1 DEF KernelSubmit, Untouched, ReplyTask, RequestTask
  <2> QED
    BY <2>1, UntouchedBuffers
<1>2. CASE KernelShutdown
  <2>1. Untouched
    BY <1>2 DEF KernelShutdown, Untouched, ReplyTask, RequestTask
  <2> QED
    BY <2>1, UntouchedBuffers
<1>3. CASE ManageRequests
  <2>1. PICK h \in Handles : h = Head(nbdSocket) /\ InNbd(h)
    <3>1. Head(nbdSocket) \in Handles /\ Head(nbdSocket) = nbdSocket[1] /\ 1 \in 1 .. Len(nbdSocket)
      BY <1>3, TakeOne DEF ManageRequests, TypeInv, KernelTypes
    <3> QED
      BY <3>1 DEF InNbd
  <2>2. Unserved(h)
    BY <2>1 DEF ServeInv, SocketOK
  <2>3. /\ UNCHANGED <<request, pc, held, frag>> /\ tasks' = tasks \cup {RequestTask(h)}
        /\ \A g \in Handles \ {h} : buffer'[g] = buffer[g]
    BY <1>3, <2>1 DEF ManageRequests, ServeInv, BuffersOK
  <2>4. buffer'[h] = [k \in Blocks(request[h]) |-> IF request[h].type = "WRITE" THEN Payload(h, k) ELSE Junk]
    BY <1>3, <2>1 DEF ManageRequests, ServeInv, BuffersOK
  <2>5. \A g \in Handles : RequestTask(g) \in tasks' => RequestTask(g) \in tasks \/ g = h
    BY <2>3 DEF RequestTask
  <2>6. ASSUME NEW g \in Handles, RequestTask(g) \in tasks', request'[g].type = "WRITE"
        PROVE  \A k \in Blocks(request'[g]) : buffer'[g][k] = Payload(g, k)
    <3>1. CASE g = h
      BY <2>3, <2>4, <2>6, <3>1
    <3>2. CASE g # h
      BY <2>3, <2>5, <2>6, <3>2 DEF BufferInv
    <3> QED
      BY <3>1, <3>2
  <2>7. \A v \in Workers : (Serves(v)' <=> Serves(v)) /\ NextFrag(v)' = NextFrag(v) /\
          (Serves(v) => held[v] \in Handles \ {h})
    BY <2>2, <2>3 DEF Serves, Sends, NextFrag, Unserved, ServeInv, WorkersOK
  <2>8. ASSUME NEW v \in Workers, Serves(v)', request'[held'[v]].type = "WRITE"
        PROVE  \A k \in Blocks(request'[held'[v]]) : k >= NextFrag(v)' =>
                 buffer'[held'[v]][k] = Payload(held'[v], k)
    BY <2>3, <2>7, <2>8 DEF BufferInv
  <2> QED
    BY <2>6, <2>8 DEF BufferInv
<1>4. CASE ReactorReturn
  <2>1. Untouched
    BY <1>4 DEF ReactorReturn, Untouched, ReplyTask, RequestTask
  <2> QED
    BY <2>1, UntouchedBuffers
<1>5. CASE ReactorAtEof
  <2>1. Untouched
    BY <1>5 DEF ReactorAtEof, Untouched, ReplyTask, RequestTask
  <2> QED
    BY <2>1, UntouchedBuffers
<1>6. ASSUME NEW i \in Iots, ManageReplies(i) PROVE BufferInv'
  <2>1. Untouched
    BY <1>6 DEF ManageReplies, Untouched, ReplyTask, RequestTask
  <2> QED
    BY <2>1, UntouchedBuffers
<1>7. ASSUME NEW i \in Iots, ManageRepliesData(i) PROVE BufferInv'
  <2>1. Untouched
    BY <1>7 DEF ManageRepliesData, Untouched, ReplyTask, RequestTask
  <2> QED
    BY <2>1, UntouchedBuffers
<1>8. ASSUME NEW i \in Iots, ManageRepliesEof(i) PROVE BufferInv'
  <2>1. Untouched
    BY <1>8 DEF ManageRepliesEof, Untouched, ReplyTask, RequestTask
  <2> QED
    BY <2>1, UntouchedBuffers
<1>9. ASSUME NEW w \in Workers, Pop(w) PROVE BufferInv'
  <2>1. Untouched
    BY <1>9 DEF Pop, Untouched, ReplyTask, RequestTask
  <2> QED
    BY <2>1, UntouchedBuffers
<1>10. ASSUME NEW w \in Workers, Slice(w) PROVE BufferInv'
  <2>1. Untouched
    BY <1>10 DEF Slice, Untouched, ReplyTask, RequestTask
  <2> QED
    BY <2>1, UntouchedBuffers
<1>11. ASSUME NEW w \in Workers, InsertSlicer(w) PROVE BufferInv'
  <2>1. Untouched
    BY <1>11 DEF InsertSlicer, Untouched, ReplyTask, RequestTask
  <2> QED
    BY <2>1, UntouchedBuffers
<1>12. ASSUME NEW w \in Workers, SenderLock(w) PROVE BufferInv'
  <2>1. Untouched
    BY <1>12 DEF SenderLock, Untouched, ReplyTask, RequestTask
  <2> QED
    BY <2>1, UntouchedBuffers
<1>13. ASSUME NEW w \in Workers, SendHeader(w) PROVE BufferInv'
  <2>1. Untouched
    BY <1>13 DEF SendHeader, Untouched, ReplyTask, RequestTask
  <2> QED
    BY <2>1, UntouchedBuffers
<1>14. ASSUME NEW w \in Workers, SendData(w) PROVE BufferInv'
  <2>1. Untouched
    BY <1>14 DEF SendData, Untouched, ReplyTask, RequestTask
  <2> QED
    BY <2>1, UntouchedBuffers
<1>15. ASSUME NEW w \in Workers, SendFails(w) PROVE BufferInv'
  <2>1. Untouched
    BY <1>15 DEF SendFails, Untouched, ReplyTask, RequestTask
  <2> QED
    BY <2>1, UntouchedBuffers
<1>16. ASSUME NEW w \in Workers, Reply(w) PROVE BufferInv'
  <2> DEFINE m == task[w].header
  <2>1. UNCHANGED tasks /\ WasSent(m) /\ m.owner \in Handles /\ Sliced(m.owner) /\
          m.m_fragmentIdx \in Nat
    <3>1. WasSent(m)
      BY <1>16, SentReply
    <3> QED
      BY <1>16, <3>1 DEF Reply, WasSent, IsHeader, Headers
  <2>2. PICK h \in Handles, k \in Nat : h = m.owner /\ k = m.m_fragmentIdx
    BY <2>1
  <2>3. \/ buffer' = buffer
        \/ buffer' = [buffer EXCEPT ![h] = [j \in DOMAIN buffer[h] |->
                                   IF j \in {k} THEN task[w].bytes ELSE buffer[h][j]]]
    <3>1. m_slicerMap[m.m_requestUid] # Nobody => m_slicerMap[m.m_requestUid] = h
      BY <2>1, <2>2, FoundSlicer
    <3>2. Strays(m.m_requestUid, {k}) \/ \E g \in Handles : Finds(w, m.m_requestUid, {k}, g)
      BY <1>16, <2>2, SentReply
    <3> HIDE DEF m
    <3>3. UNCHANGED buffer \/ CopyFragment(h, {k}, task[w].bytes)
      BY <3>1, <3>2, NamesAssumption DEF Strays, Finds
    <3> QED
      BY <3>3 DEF CopyFragment
  <2>4. \A g \in Handles \ {h} : buffer'[g] = buffer[g]
    BY <2>3 DEF ServeInv, BuffersOK
  <2>5. \A j \in Blocks(request[h]) \ {k} : buffer'[h][j] = buffer[h][j]
    <3>1. \/ buffer'[h] = buffer[h]
          \/ buffer'[h] = [j \in DOMAIN buffer[h] |->
                             IF j \in {k} THEN task[w].bytes ELSE buffer[h][j]]
      BY <2>3 DEF ServeInv, BuffersOK
    <3>2. HasBuffer(h)
      BY <2>1, <2>2 DEF ServeInv, BuffersOK
    <3> QED
      BY <3>1, <3>2 DEF HasBuffer
  <2>6. RequestTask(h) \notin tasks
    BY <2>1, <2>2 DEF ServeInv, TasksOK, Unserved
  <2>7. \A v \in Workers : Serves(v) /\ held[v] = h => k < NextFrag(v) /\ NextFrag(v) \in Nat
    BY <2>1, <2>2 DEF WasSent, NextFrag, TypeInv, WorkerTypes
  <2>8. \A v \in Workers : Serves(v) => held[v] \in Handles
    BY DEF ServeInv, WorkersOK
  <2>9. ASSUME NEW v \in Workers, Serves(v), NEW j \in Blocks(request[held[v]]), j >= NextFrag(v)
        PROVE  buffer'[held[v]][j] = buffer[held[v]][j]
    <3>1. CASE held[v] = h
      <4>1. j # k
        BY <2>7, <2>9, <3>1
      <4> QED
        BY <2>5, <3>1, <4>1
    <3>2. CASE held[v] # h
      BY <2>4, <2>8, <2>9, <3>2
    <3> QED
      BY <3>1, <3>2
  <2>10. Untouched
    BY <2>1, <2>4, <2>6, <2>9 DEF Untouched
  <2> QED
    BY <2>10, UntouchedBuffers
<1>17. ASSUME NEW w \in Workers, Release(w) PROVE BufferInv'
  <2>1. Untouched
    BY <1>17 DEF Release, Untouched, ReplyTask, RequestTask
  <2> QED
    BY <2>1, UntouchedBuffers
<1>18. ASSUME NEW i \in Iots, IotReadHeader(i) PROVE BufferInv'
  <2>1. Untouched
    BY <1>18 DEF IotReadHeader, Untouched, ReplyTask, RequestTask
  <2> QED
    BY <2>1, UntouchedBuffers
<1>19. ASSUME NEW i \in Iots, IotWrite(i) PROVE BufferInv'
  <2>1. Untouched
    BY <1>19 DEF IotWrite, Untouched, ReplyTask, RequestTask
  <2> QED
    BY <2>1, UntouchedBuffers
<1>20. ASSUME NEW i \in Iots, IotSendHeader(i) PROVE BufferInv'
  <2>1. Untouched
    BY <1>20 DEF IotSendHeader, Untouched, ReplyTask, RequestTask
  <2> QED
    BY <2>1, UntouchedBuffers
<1>21. ASSUME NEW i \in Iots, IotSendData(i) PROVE BufferInv'
  <2>1. Untouched
    BY <1>21 DEF IotSendData, Untouched, ReplyTask, RequestTask
  <2> QED
    BY <2>1, UntouchedBuffers
<1>22. ASSUME NEW i \in Iots, IotFail(i) PROVE BufferInv'
  <2>1. Untouched
    BY <1>22 DEF IotFail, Untouched, ReplyTask, RequestTask
  <2> QED
    BY <2>1, UntouchedBuffers
<1>23. CASE UNCHANGED vars
  <2>1. Untouched
    BY <1>23 DEF vars, Untouched
  <2> QED
    BY <2>1, UntouchedBuffers
<1> QED
  BY <1>1, <1>2, <1>3, <1>4, <1>5, <1>6, <1>7, <1>8, <1>9, <1>10, <1>11, <1>12, <1>13,
     <1>14, <1>15, <1>16, <1>17, <1>18, <1>19, <1>20, <1>21, <1>22, <1>23
  DEF Next, Reactor, Worker, Iot, Stop

-----------------------------------------------------------------------------
(***************************************************************************)
(* Where the header of a fragment that was sent and not replied to is.     *)
(***************************************************************************)
Has(f, m)    == \E i \in Iots : \E j \in 1 .. Len(f[i]) : f[i][j] = m
InTo(m)      == Has(toIot, m)
AtIot(m)     == \E i \in Iots : iot[i].at \in {"read", "write", "ack"} /\ iot[i].header = m
InFrom(m)    == Has(fromIot, m)
AtReactor(m) == reactor.at = "data" /\ reactor.header = m
InTasks(m)   == \E t \in tasks : t.kind = "reply" /\ t.header = m
AtWorker(m)  == \E w \in Workers : pc[w] = "reply" /\ task[w].header = m

Stages == {"to", "iot", "from", "reactor", "tasks", "worker"}
In(stage, m) ==
  \/ stage = "to" /\ InTo(m)
  \/ stage = "iot" /\ AtIot(m)
  \/ stage = "from" /\ InFrom(m)
  \/ stage = "reactor" /\ AtReactor(m)
  \/ stage = "tasks" /\ InTasks(m)
  \/ stage = "worker" /\ AtWorker(m)

(***************************************************************************)
(* While the devices are up it is in one place, and there once.            *)
(***************************************************************************)
OnePlace == \A m \in Headers : \A a, b \in Stages : In(a, m) /\ In(b, m) => a = b
Once(f) ==
  \A i \in Iots : \A j, k \in 1 .. Len(f[i]) :
    f[i][j].kind = "header" /\ f[i][j] = f[i][k] => j = k
RepliesOnce == Once(fromIot)
TasksOnce ==
  \A s, t \in tasks : s.kind = "reply" /\ t.kind = "reply" /\ s.header = t.header => s = t
WorkersOnce ==
  \A v, w \in Workers :
    pc[v] = "reply" /\ pc[w] = "reply" /\ task[v].header = task[w].header => v = w

UniqueInv == ~Broken => OnePlace /\ RepliesOnce /\ TasksOnce /\ WorkersOnce

(***************************************************************************)
(* The fragments a slicer waits for are those whose header is not yet sent *)
(* or on its way; there are as many as its count says, and while there is  *)
(* one the map leads to it.                                                *)
(***************************************************************************)
Misses(w, h, k) ==
  /\ Serves(w) /\ held[w] = h
  /\ k >= NextFrag(w) /\ ~(pc[w] = "sendData" /\ k = frag[w])
Unsent(h, k) == \E w \in Workers : Misses(w, h, k)

Somewhere(m) == \E a \in Stages : In(a, m)
Abroad(h, k) == \E m \in Headers : m = HeaderOf(h, k) /\ Somewhere(m)
Outstanding(h) == {k \in Blocks(request[h]) : Unsent(h, k) \/ Abroad(h, k)}

Kept(h) ==
  \/ \E w \in Workers : pc[w] = "insert" /\ held[w] = h
  \/ m_slicerMap[m_requestUid[h]] = h

SlicerInv ==
  ~Broken =>
    \A h \in Handles : Sliced(h) =>
      /\ m_countSlices[h] = Cardinality(Outstanding(h))
      /\ Outstanding(h) = {} \/ Kept(h)

(***************************************************************************)
(* What a stream has after its front was taken or a message was put at its *)
(* end.                                                                    *)
(***************************************************************************)
LEMMA TakenIsGone ==
  ASSUME NEW f, NEW i, NEW g, TookFrom(f, i, g)
  PROVE  /\ \A m : m # Head(f[i]) => (Has(g, m) <=> Has(f, m))
         /\ (\A d \in Iots : \A j \in 1 .. Len(f[d]) : f[d][j] = Head(f[i]) => d = i /\ j = 1)
              => ~Has(g, Head(f[i]))
         /\ Has(f, Head(f[i]))
<1>1. /\ i \in Iots /\ f[i] # <<>> /\ f[i] \in Seq(Messages)
      /\ \A d \in Iots : g[d] = IF d = i THEN Tail(f[i]) ELSE f[d]
  BY DEF TookFrom
<1>2. /\ Head(f[i]) = f[i][1] /\ 1 \in 1 .. Len(f[i]) /\ Len(f[i]) \in Nat
      /\ Len(Tail(f[i])) = Len(f[i]) - 1
      /\ \A j \in 1 .. Len(Tail(f[i])) : j + 1 \in 1 .. Len(f[i]) /\ Tail(f[i])[j] = f[i][j + 1]
  BY <1>1, TakeOne
<1>3. ASSUME NEW m, Has(g, m) PROVE Has(f, m)
  <2>0. PICK d \in Iots : \E j \in 1 .. Len(g[d]) : g[d][j] = m
    BY <1>3 DEF Has
  <2>1. PICK j \in 1 .. Len(g[d]) : g[d][j] = m
    BY <2>0
  <2>2. \E k \in 1 .. Len(f[d]) : g[d][j] = f[d][k]
    BY AllFromTail
  <2> QED
    BY <2>1, <2>2 DEF Has
<1>4. ASSUME NEW m, m # Head(f[i]), Has(f, m) PROVE Has(g, m)
  <2>0. PICK d \in Iots : \E j \in 1 .. Len(f[d]) : f[d][j] = m
    BY <1>4 DEF Has
  <2>1. PICK j \in 1 .. Len(f[d]) : f[d][j] = m
    BY <2>0
  <2>2. CASE d # i
    BY <1>1, <2>1, <2>2 DEF Has
  <2>3. CASE d = i
    <3>1. j - 1 \in 1 .. Len(Tail(f[i])) /\ (j - 1) + 1 = j
      BY <1>2, <1>4, <2>1, <2>3
    <3>2. g[i] = Tail(f[i]) /\ Tail(f[i])[j - 1] = f[i][(j - 1) + 1]
      BY <1>1, <1>2, <3>1
    <3> QED
      BY <1>1, <2>1, <2>3, <3>1, <3>2 DEF Has
  <2> QED
    BY <2>2, <2>3
<1>5. ASSUME \A d \in Iots : \A j \in 1 .. Len(f[d]) : f[d][j] = Head(f[i]) => d = i /\ j = 1,
             Has(g, Head(f[i]))
      PROVE  FALSE
  <2>0. PICK d \in Iots : \E j \in 1 .. Len(g[d]) : g[d][j] = Head(f[i])
    BY <1>5 DEF Has
  <2>1. PICK j \in 1 .. Len(g[d]) : g[d][j] = Head(f[i])
    BY <2>0
  <2>2. CASE d # i
    BY <1>1, <1>5, <2>1, <2>2
  <2>3. CASE d = i
    <3>0. g[d] = Tail(f[i]) /\ j \in 1 .. Len(Tail(f[i])) /\ Tail(f[i])[j] = Head(f[i])
      BY <1>1, <2>1, <2>3
    <3>1. j + 1 \in 1 .. Len(f[i]) /\ f[i][j + 1] = Head(f[i]) /\ j \in Nat /\ j >= 1
      BY <1>2, <3>0
    <3>2. j + 1 = 1
      BY <1>1, <1>5, <3>1
    <3> QED
      BY <3>1, <3>2
  <2> QED
    BY <2>2, <2>3
<1> QED
  BY <1>1, <1>2, <1>3, <1>4, <1>5 DEF Has

AddedTo(f, i, x, g) ==
  /\ f \in [Iots -> Seq(Messages)] /\ i \in Iots /\ x \in Messages
  /\ g = [f EXCEPT ![i] = Append(f[i], x)]

\* What a connection holds after a message was added.
LEMMA PutIsThere ==
  ASSUME NEW f, NEW i, NEW x, NEW g, AddedTo(f, i, x, g)
  PROVE  \A m : Has(g, m) <=> Has(f, m) \/ m = x
<1> USE DEF AddedTo
<1>1. PutTo(f, i, x, g)
  BY DEF PutTo
<1>2. /\ Len(Append(f[i], x)) = Len(f[i]) + 1 /\ Len(f[i]) \in Nat
      /\ Append(f[i], x)[Len(f[i]) + 1] = x
      /\ \A j \in 1 .. Len(f[i]) : Append(f[i], x)[j] = f[i][j]
  BY PutOne
<1>3. i \in Iots /\ \A d \in Iots : g[d] = IF d = i THEN Append(f[i], x) ELSE f[d]
  OBVIOUS
<1>4. ASSUME NEW m, Has(g, m) PROVE Has(f, m) \/ m = x
  <2>0. PICK d \in Iots : \E j \in 1 .. Len(g[d]) : g[d][j] = m
    BY <1>4 DEF Has
  <2>1. PICK j \in 1 .. Len(g[d]) : g[d][j] = m
    BY <2>0
  <2>2. (d = i /\ g[d][j] = x) \/ \E k \in 1 .. Len(f[d]) : g[d][j] = f[d][k]
    BY <1>1, AllFromAppend
  <2> QED
    BY <2>1, <2>2 DEF Has
<1>5. ASSUME NEW m, Has(f, m) PROVE Has(g, m)
  <2>0. PICK d \in Iots : \E j \in 1 .. Len(f[d]) : f[d][j] = m
    BY <1>5 DEF Has
  <2>1. PICK j \in 1 .. Len(f[d]) : f[d][j] = m
    BY <2>0
  <2>2. j \in 1 .. Len(g[d]) /\ g[d][j] = m
    BY <1>2, <1>3, <2>1
  <2> QED
    BY <2>2 DEF Has
<1>6. Has(g, x)
  <2>1. Len(f[i]) + 1 \in 1 .. Len(g[i]) /\ g[i][Len(f[i]) + 1] = x
    BY <1>2, <1>3
  <2> QED
    BY <2>1 DEF Has
<1> QED
  BY <1>4, <1>5, <1>6

(***************************************************************************)
(* Header x leaves stage a and comes to stage b, and nothing else moves.   *)
(***************************************************************************)
Turns(is, was, stage, a, b, here) == is <=> (was /\ ~(stage = a /\ here)) \/ (stage = b /\ here)
Moved(a, b, x) ==
  \A m \in Headers :
    /\ Turns(InTo(m)', InTo(m), "to", a, b, m = x)
    /\ Turns(AtIot(m)', AtIot(m), "iot", a, b, m = x)
    /\ Turns(InFrom(m)', InFrom(m), "from", a, b, m = x)
    /\ Turns(AtReactor(m)', AtReactor(m), "reactor", a, b, m = x)
    /\ Turns(InTasks(m)', InTasks(m), "tasks", a, b, m = x)
    /\ Turns(AtWorker(m)', AtWorker(m), "worker", a, b, m = x)

\* When header x moves from stage a to stage b nothing else moves.
LEMMA MovedIs ==
  ASSUME NEW a, NEW b, NEW x, Moved(a, b, x)
  PROVE  \A stage \in Stages, m \in Headers :
           In(stage, m)' <=> (In(stage, m) /\ ~(stage = a /\ m = x)) \/ (stage = b /\ m = x)
<1> SUFFICES ASSUME NEW stage \in Stages, NEW m \in Headers
             PROVE  In(stage, m)' <=> (In(stage, m) /\ ~(stage = a /\ m = x)) \/
                      (stage = b /\ m = x)
  OBVIOUS
<1>1. CASE stage = "to"
  BY <1>1 DEF Moved, Turns, In
<1>2. CASE stage = "iot"
  BY <1>2 DEF Moved, Turns, In
<1>3. CASE stage = "from"
  BY <1>3 DEF Moved, Turns, In
<1>4. CASE stage = "reactor"
  BY <1>4 DEF Moved, Turns, In
<1>5. CASE stage = "tasks"
  BY <1>5 DEF Moved, Turns, In
<1>6. CASE stage = "worker"
  BY <1>6 DEF Moved, Turns, In
<1> QED
  BY <1>1, <1>2, <1>3, <1>4, <1>5, <1>6 DEF Stages

Quiet == Moved("none", "none", Nobody)
Carried == \E a, b \in Stages, m \in Headers : In(a, m) /\ Moved(a, b, m)

(***************************************************************************)
(* While the devices are up a step carries no header, or one from a stage  *)
(* to another, or it sends a header or processes a reply.                  *)
(***************************************************************************)
LEMMA HeadersTravel ==
  ASSUME TypeInv, ServeInv, HeaderInv, FrameInv, OnceInv, UniqueInv, ~Broken', [Next]_vars
  PROVE  Quiet \/ Carried \/ (\E w \in Workers : SendHeader(w) \/ Reply(w))
<1> DEFINE Goal == Quiet \/ Carried \/ (\E w \in Workers : SendHeader(w) \/ Reply(w))
<1> SUFFICES Goal
  OBVIOUS
<1> USE DEF kernelVars, requestVars, reactorVars, workerVars, slicerVars, netVars, iotVars,
            iotUnchanged
<1>0. KernelTypes /\ ReactorTypes /\ TaskTypes /\ WorkerTypes /\ NetTypes /\ DeviceTypes
  BY DEF TypeInv
<1>00. RequestHeaders /\ ReplyHeaders /\ DeviceHeaders /\ ReactorHeaders /\ TaskHeaders
  BY DEF HeaderInv
<1>01. ~Broken /\ eofReads = 0 /\ OnePlace /\ RepliesOnce /\ TasksOnce /\ WorkersOnce
  BY <1>0, <1>00, BrokenStays DEF UniqueInv, ReactorTypes, ReactorHeaders
<1> USE <1>0, <1>00, <1>01
<1>1. ASSUME NEW g \in Handles, NEW s \in Shapes, KernelSubmit(g, s) PROVE Goal
  <2>1. ASSUME NEW m \in Headers
        PROVE  (InTo(m)' <=> InTo(m)) /\ (AtIot(m)' <=> AtIot(m)) /\ (InFrom(m)' <=> InFrom(m))
               /\ (AtReactor(m)' <=> AtReactor(m)) /\ (InTasks(m)' <=> InTasks(m)) /\
                    (AtWorker(m)' <=> AtWorker(m))
    BY <1>1 DEF KernelSubmit, Has, InTo, AtIot, InFrom, AtReactor, InTasks, AtWorker
  <2> QED
    BY <2>1 DEF Quiet, Moved, Turns
<1>2. CASE KernelShutdown
  <2>1. ASSUME NEW m \in Headers
        PROVE  (InTo(m)' <=> InTo(m)) /\ (AtIot(m)' <=> AtIot(m)) /\ (InFrom(m)' <=> InFrom(m))
               /\ (AtReactor(m)' <=> AtReactor(m)) /\ (InTasks(m)' <=> InTasks(m)) /\
                    (AtWorker(m)' <=> AtWorker(m))
    BY <1>2 DEF KernelShutdown, Has, InTo, AtIot, InFrom, AtReactor, InTasks, AtWorker
  <2> QED
    BY <2>1 DEF Quiet, Moved, Turns
<1>3. CASE ManageRequests
  <2>1. ASSUME NEW m \in Headers
        PROVE  (InTo(m)' <=> InTo(m)) /\ (AtIot(m)' <=> AtIot(m)) /\ (InFrom(m)' <=> InFrom(m))
               /\ (AtWorker(m)' <=> AtWorker(m))
    BY <1>3 DEF ManageRequests, Has, InTo, AtIot, InFrom, AtWorker
  <2>2. \A m \in Headers : AtReactor(m)' <=> AtReactor(m)
    <3>1. reactor.at # "data" /\ reactor'.at # "data"
      BY <1>3 DEF ManageRequests, Select, Returning, Spinning
    <3> QED
      BY <3>1 DEF AtReactor
  <2>3. \A m \in Headers : InTasks(m)' <=> InTasks(m)
    <3>1. \A t \in tasks' : t \in tasks \/ t.kind = "request"
      BY <1>3 DEF ManageRequests, RequestTask
    <3>2. tasks \subseteq tasks'
      BY <1>3 DEF ManageRequests
    <3> QED
      BY <3>1, <3>2 DEF InTasks
  <2> QED
    BY <2>1, <2>2, <2>3 DEF Quiet, Moved, Turns
<1>4. CASE ReactorReturn
  <2>1. ASSUME NEW m \in Headers
        PROVE  (InTo(m)' <=> InTo(m)) /\ (AtIot(m)' <=> AtIot(m)) /\ (InFrom(m)' <=> InFrom(m))
               /\ (InTasks(m)' <=> InTasks(m)) /\ (AtWorker(m)' <=> AtWorker(m))
    BY <1>4 DEF ReactorReturn, Has, InTo, AtIot, InFrom, InTasks, AtWorker
  <2>2. \A m \in Headers : AtReactor(m)' <=> AtReactor(m)
    <3>1. reactor.at # "data" /\ reactor'.at # "data"
      BY <1>4 DEF ReactorReturn, Select, Returning, Spinning
    <3> QED
      BY <3>1 DEF AtReactor
  <2> QED
    BY <2>1, <2>2 DEF Quiet, Moved, Turns
<1>5. CASE ReactorAtEof
  <2>1. ASSUME NEW m \in Headers
        PROVE  (InTo(m)' <=> InTo(m)) /\ (AtIot(m)' <=> AtIot(m)) /\ (InFrom(m)' <=> InFrom(m))
               /\ (InTasks(m)' <=> InTasks(m)) /\ (AtWorker(m)' <=> AtWorker(m))
    BY <1>5 DEF ReactorAtEof, Has, InTo, AtIot, InFrom, InTasks, AtWorker
  <2>2. \A m \in Headers : AtReactor(m)' <=> AtReactor(m)
    <3>1. reactor.at # "data" /\ reactor'.at # "data"
      BY <1>5 DEF ReactorAtEof, Select, Returning, Spinning
    <3> QED
      BY <3>1 DEF AtReactor
  <2> QED
    BY <2>1, <2>2 DEF Quiet, Moved, Turns
<1>6. ASSUME NEW i \in Iots, ManageReplies(i) PROVE Goal
  <2>1. CASE Head(fromIot[i]).m_type = "READ"
    <3>1. PICK x \in Headers : x = Head(fromIot[i])
      BY <1>6, FrontOfReplies DEF ManageReplies, Headers
    <3>2. \A m \in Headers : (InTo(m)' <=> InTo(m)) /\ (AtIot(m)' <=> AtIot(m)) /\
            (InTasks(m)' <=> InTasks(m)) /\ (AtWorker(m)' <=> AtWorker(m))
      BY <1>6, <2>1 DEF ManageReplies, Has, InTo, AtIot, InTasks, AtWorker
    <3>3. \A m \in Headers : InFrom(m)' <=> InFrom(m) /\ m # x
      <4>1. TookFrom(fromIot, i, fromIot')
        BY <1>6 DEF ManageReplies, TookFrom, NetTypes
      <4>2. Head(fromIot[i]) = fromIot[i][1] /\ 1 \in 1 .. Len(fromIot[i])
        BY <1>6, TakeOne DEF ManageReplies, NetTypes
      <4>3. x.kind = "header" /\ HomeOf(x) = i
        BY <3>1, <4>2 DEF ReplyHeaders, Headers
      <4>4. \A d \in Iots : \A j \in 1 .. Len(fromIot[d]) :
              fromIot[d][j] = Head(fromIot[i]) => d = i /\ j = 1
        BY <3>1, <4>2, <4>3 DEF ReplyHeaders, RepliesOnce, Once
      <4>5. ~Has(fromIot', x) /\ \A m : m # x => (Has(fromIot', m) <=> Has(fromIot, m))
        BY <3>1, <4>1, <4>4, TakenIsGone
      <4> QED
        BY <4>5 DEF InFrom
    <3>4. \A m \in Headers : AtReactor(m)' <=> AtReactor(m) \/ m = x
      BY <1>6, <3>1, <2>1 DEF ManageReplies, AtReactor, Select, ReadingData
    <3>5. Moved("from", "reactor", x)
      BY <3>2, <3>3, <3>4 DEF Moved, Turns
    <3>6. In("from", x)
      <4>1. Has(fromIot, Head(fromIot[i]))
        <5>1. TookFrom(fromIot, i, fromIot')
          BY <1>6 DEF ManageReplies, TookFrom, NetTypes
        <5> QED
          BY <5>1, TakenIsGone
      <4> QED
        BY <3>1, <4>1 DEF In, InFrom
    <3> QED
      BY <3>5, <3>6 DEF Carried, Stages
  <2>2. CASE Head(fromIot[i]).m_type # "READ"
    <3>1. PICK x \in Headers : x = Head(fromIot[i])
      BY <1>6, FrontOfReplies DEF ManageReplies, Headers
    <3>2. \A m \in Headers : (InTo(m)' <=> InTo(m)) /\ (AtIot(m)' <=> AtIot(m)) /\
            (AtReactor(m)' <=> AtReactor(m)) /\ (AtWorker(m)' <=> AtWorker(m))
      BY <1>6, <2>2 DEF ManageReplies, Has, InTo, AtIot, AtReactor, AtWorker
    <3>3. \A m \in Headers : InFrom(m)' <=> InFrom(m) /\ m # x
      <4>1. TookFrom(fromIot, i, fromIot')
        BY <1>6 DEF ManageReplies, TookFrom, NetTypes
      <4>2. Head(fromIot[i]) = fromIot[i][1] /\ 1 \in 1 .. Len(fromIot[i])
        BY <1>6, TakeOne DEF ManageReplies, NetTypes
      <4>3. x.kind = "header" /\ HomeOf(x) = i
        BY <3>1, <4>2 DEF ReplyHeaders, Headers
      <4>4. \A d \in Iots : \A j \in 1 .. Len(fromIot[d]) :
              fromIot[d][j] = Head(fromIot[i]) => d = i /\ j = 1
        BY <3>1, <4>2, <4>3 DEF ReplyHeaders, RepliesOnce, Once
      <4>5. ~Has(fromIot', x) /\ \A m : m # x => (Has(fromIot', m) <=> Has(fromIot, m))
        BY <3>1, <4>1, <4>4, TakenIsGone
      <4> QED
        BY <4>5 DEF InFrom
    <3>4. \A m \in Headers : InTasks(m)' <=> InTasks(m) \/ m = x
      <4>1. tasks' = tasks \cup {ReplyTask(x, Junk)}
        BY <1>6, <2>2, <3>1 DEF ManageReplies
      <4>2. ReplyTask(x, Junk).kind = "reply" /\ ReplyTask(x, Junk).header = x
        BY DEF ReplyTask
      <4> QED
        BY <4>1, <4>2 DEF InTasks
    <3>5. Moved("from", "tasks", x)
      BY <3>2, <3>3, <3>4 DEF Moved, Turns
    <3>6. In("from", x)
      <4>1. Has(fromIot, Head(fromIot[i]))
        <5>1. TookFrom(fromIot, i, fromIot')
          BY <1>6 DEF ManageReplies, TookFrom, NetTypes
        <5> QED
          BY <5>1, TakenIsGone
      <4> QED
        BY <3>1, <4>1 DEF In, InFrom
    <3> QED
      BY <3>5, <3>6 DEF Carried, Stages
  <2> QED
    BY <2>1, <2>2
<1>7. ASSUME NEW i \in Iots, ManageRepliesData(i) PROVE Goal
  <2>1. PICK x \in Headers : x = reactor.header
    BY <1>7 DEF ManageRepliesData, ReactorHeaders, WasSent, IsHeader
  <2>2. \A m \in Headers : (InTo(m)' <=> InTo(m)) /\ (AtIot(m)' <=> AtIot(m)) /\
          (AtWorker(m)' <=> AtWorker(m))
    BY <1>7 DEF ManageRepliesData, Has, InTo, AtIot, AtWorker
  <2>3. \A m \in Headers : InFrom(m)' <=> InFrom(m)
    <3>1. ~AtEof(i)
      BY DEF AtEof, Broken
    <3>2. TookFrom(fromIot, i, fromIot')
      BY <1>7, <3>1 DEF ManageRepliesData, TookFrom, NetTypes
    <3>3. Head(fromIot[i]) \notin Headers
      BY <1>7, <3>1, FrontOfReplies DEF ManageRepliesData, DataMessages, Headers
    <3>4. \A m \in Headers : Has(fromIot', m) <=> Has(fromIot, m)
      BY <3>2, <3>3, TakenIsGone
    <3> QED
      BY <3>4 DEF InFrom
  <2>4. \A m \in Headers : AtReactor(m)' <=> AtReactor(m) /\ m # x
    BY <1>7, <2>1 DEF ManageRepliesData, AtReactor, Select
  <2>5. \A m \in Headers : InTasks(m)' <=> InTasks(m) \/ m = x
    <3>1. PICK v : tasks' = tasks \cup {ReplyTask(x, v)}
      BY <1>7, <2>1 DEF ManageRepliesData
    <3>2. ReplyTask(x, v).kind = "reply" /\ ReplyTask(x, v).header = x
      BY DEF ReplyTask
    <3> QED
      BY <3>1, <3>2 DEF InTasks
  <2>6. Moved("reactor", "tasks", x)
    BY <2>2, <2>3, <2>4, <2>5 DEF Moved, Turns
  <2>7. In("reactor", x)
    BY <1>7, <2>1 DEF ManageRepliesData, In, AtReactor
  <2> QED
    BY <2>6, <2>7 DEF Carried, Stages
<1>8. ASSUME NEW i \in Iots, ManageRepliesEof(i) PROVE Goal
  BY <1>8 DEF ManageRepliesEof, AtEof, Broken
<1>9. ASSUME NEW w \in Workers, Pop(w) PROVE Goal
  <2>1. PICK t \in tasks : /\ tasks' = tasks \ {t} /\ task' = [task EXCEPT ![w] = t]
                           /\ IF t.kind = "request" THEN GoTo(w, "slice") ELSE GoTo(w, "reply")
    BY <1>9 DEF Pop
  <2>2. \A v \in Workers \ {w} : pc'[v] = pc[v] /\ task'[v] = task[v]
    BY <2>1 DEF GoTo, WorkerTypes, TaskTypes
  <2>3. pc[w] = "pop" /\ task'[w] = t
    BY <1>9, <2>1 DEF Pop, TaskTypes
  <2>4. ASSUME NEW m \in Headers
        PROVE  (InTo(m)' <=> InTo(m)) /\ (AtIot(m)' <=> AtIot(m)) /\ (InFrom(m)' <=> InFrom(m))
               /\ (AtReactor(m)' <=> AtReactor(m))
    BY <1>9 DEF Pop, Has, InTo, AtIot, InFrom, AtReactor
  <2>5. CASE t.kind = "request"
    <3>1. pc'[w] = "slice"
      BY <2>1, <2>5 DEF GoTo, WorkerTypes
    <3>2. \A m \in Headers : AtWorker(m)' <=> AtWorker(m)
      BY <2>2, <2>3, <3>1 DEF AtWorker
    <3>3. \A m \in Headers : InTasks(m)' <=> InTasks(m)
      BY <2>1, <2>5 DEF InTasks
    <3> QED
      BY <2>4, <3>2, <3>3 DEF Quiet, Moved, Turns
  <2>6. CASE t.kind # "request"
    <3>1. pc'[w] = "reply" /\ t.kind = "reply"
      BY <2>1, <2>6 DEF GoTo, WorkerTypes, TaskTypes, RequestTasks, ReplyTasks
    <3>2. PICK x \in Headers : x = t.header
      BY <2>1, <3>1 DEF TaskHeaders, Known, WasSent, IsHeader
    <3>3. \A m \in Headers : AtWorker(m)' <=> AtWorker(m) \/ m = x
      BY <2>2, <2>3, <3>1, <3>2 DEF AtWorker
    <3>4. \A m \in Headers : InTasks(m)' <=> InTasks(m) /\ m # x
      BY <2>1, <3>1, <3>2 DEF InTasks, TasksOnce
    <3>5. Moved("tasks", "worker", x)
      BY <2>4, <3>3, <3>4 DEF Moved, Turns
    <3>6. In("tasks", x)
      BY <3>1, <3>2 DEF In, InTasks
    <3> QED
      BY <3>5, <3>6 DEF Carried, Stages
  <2> QED
    BY <2>5, <2>6
<1>10. ASSUME NEW w \in Workers, Slice(w) PROVE Goal
  <2>1. ASSUME NEW m \in Headers
        PROVE  (InTo(m)' <=> InTo(m)) /\ (AtIot(m)' <=> AtIot(m)) /\ (InFrom(m)' <=> InFrom(m))
               /\ (AtReactor(m)' <=> AtReactor(m)) /\ (InTasks(m)' <=> InTasks(m))
    BY <1>10 DEF Slice, Has, InTo, AtIot, InFrom, AtReactor, InTasks
  <2>2. \A m \in Headers : AtWorker(m)' <=> AtWorker(m)
    <3>1. \A v \in Workers : /\ pc'[v] = "reply" <=> pc[v] = "reply"
                             /\ pc[v] = "reply" => task'[v] = task[v]
      BY <1>10 DEF Slice, GoTo, NextFragment, WorkerTypes, TaskTypes
    <3> QED
      BY <3>1 DEF AtWorker
  <2> QED
    BY <2>1, <2>2 DEF Quiet, Moved, Turns
<1>11. ASSUME NEW w \in Workers, InsertSlicer(w) PROVE Goal
  <2>1. ASSUME NEW m \in Headers
        PROVE  (InTo(m)' <=> InTo(m)) /\ (AtIot(m)' <=> AtIot(m)) /\ (InFrom(m)' <=> InFrom(m))
               /\ (AtReactor(m)' <=> AtReactor(m)) /\ (InTasks(m)' <=> InTasks(m))
    BY <1>11 DEF InsertSlicer, Has, InTo, AtIot, InFrom, AtReactor, InTasks
  <2>2. \A m \in Headers : AtWorker(m)' <=> AtWorker(m)
    <3>1. \A v \in Workers : /\ pc'[v] = "reply" <=> pc[v] = "reply"
                             /\ pc[v] = "reply" => task'[v] = task[v]
      BY <1>11 DEF InsertSlicer, GoTo, NextFragment, WorkerTypes, TaskTypes
    <3> QED
      BY <3>1 DEF AtWorker
  <2> QED
    BY <2>1, <2>2 DEF Quiet, Moved, Turns
<1>12. ASSUME NEW w \in Workers, SenderLock(w) PROVE Goal
  <2>1. ASSUME NEW m \in Headers
        PROVE  (InTo(m)' <=> InTo(m)) /\ (AtIot(m)' <=> AtIot(m)) /\ (InFrom(m)' <=> InFrom(m))
               /\ (AtReactor(m)' <=> AtReactor(m)) /\ (InTasks(m)' <=> InTasks(m))
    BY <1>12 DEF SenderLock, Has, InTo, AtIot, InFrom, AtReactor, InTasks
  <2>2. \A m \in Headers : AtWorker(m)' <=> AtWorker(m)
    <3>1. \A v \in Workers : /\ pc'[v] = "reply" <=> pc[v] = "reply"
                             /\ pc[v] = "reply" => task'[v] = task[v]
      BY <1>12 DEF SenderLock, GoTo, NextFragment, WorkerTypes, TaskTypes
    <3> QED
      BY <3>1 DEF AtWorker
  <2> QED
    BY <2>1, <2>2 DEF Quiet, Moved, Turns
<1>13. ASSUME NEW w \in Workers, SendHeader(w) PROVE Goal
  BY <1>13
<1>14. ASSUME NEW w \in Workers, SendData(w) PROVE Goal
  <2>1. ASSUME NEW m \in Headers
        PROVE  (AtIot(m)' <=> AtIot(m)) /\ (InFrom(m)' <=> InFrom(m)) /\
                 (AtReactor(m)' <=> AtReactor(m))
               /\ (InTasks(m)' <=> InTasks(m))
    BY <1>14 DEF SendData, Has, AtIot, InFrom, AtReactor, InTasks
  <2>2. \A m \in Headers : AtWorker(m)' <=> AtWorker(m)
    <3>1. \A v \in Workers : /\ pc'[v] = "reply" <=> pc[v] = "reply"
                             /\ pc[v] = "reply" => task'[v] = task[v]
      BY <1>14 DEF SendData, GoTo, NextFragment, WorkerTypes, TaskTypes
    <3> QED
      BY <3>1 DEF AtWorker
  <2>3. \A m \in Headers : InTo(m)' <=> InTo(m)
    <3>1. PICK d \in Iots, y \in Messages : d = SendingTo(w) /\ y = Data(Current(w).bytes)
      BY <1>14, CurrentFragment DEF SendData, Sends, Messages, DataMessages, Data
    <3>2. toIot' = [toIot EXCEPT ![d] = Append(toIot[d], y)]
      <4>1. iot[d] # Closed
        BY DEF Broken
      <4>2. SendTo(d, y)
        BY <1>14, <3>1, CurrentFragment DEF SendData, Sends
      <4> QED
        BY <4>1, <4>2 DEF SendTo
    <3>3. \A m : Has(toIot', m) <=> Has(toIot, m) \/ m = y
      <4>1. AddedTo(toIot, d, y, toIot')
        BY <3>2 DEF AddedTo, NetTypes
      <4> QED
        BY <4>1, PutIsThere
    <3>4. y \notin Headers
      BY <3>1 DEF Data, Headers
    <3> QED
      BY <3>3, <3>4 DEF InTo
  <2> QED
    BY <2>1, <2>2, <2>3 DEF Quiet, Moved, Turns
<1>15. ASSUME NEW w \in Workers, SendFails(w) PROVE Goal
  <2>1. Sends(w)
    BY <1>15 DEF SendFails, Sends
  <2>2. Current(w).iot \in Iots
    BY <2>1, CurrentFragment
  <2> QED
    BY <1>15, <2>2 DEF SendFails, Broken
<1>16. ASSUME NEW w \in Workers, Reply(w) PROVE Goal
  BY <1>16
<1>17. ASSUME NEW w \in Workers, Release(w) PROVE Goal
  <2>1. ASSUME NEW m \in Headers
        PROVE  (InTo(m)' <=> InTo(m)) /\ (AtIot(m)' <=> AtIot(m)) /\ (InFrom(m)' <=> InFrom(m))
               /\ (AtReactor(m)' <=> AtReactor(m)) /\ (InTasks(m)' <=> InTasks(m))
    BY <1>17 DEF Release, Has, InTo, AtIot, InFrom, AtReactor, InTasks
  <2>2. \A m \in Headers : AtWorker(m)' <=> AtWorker(m)
    <3>1. \A v \in Workers : /\ pc'[v] = "reply" <=> pc[v] = "reply"
                             /\ pc[v] = "reply" => task'[v] = task[v]
      BY <1>17 DEF Release, GoTo, NextFragment, WorkerTypes, TaskTypes
    <3> QED
      BY <3>1 DEF AtWorker
  <2> QED
    BY <2>1, <2>2 DEF Quiet, Moved, Turns
<1>18. ASSUME NEW i \in Iots, IotReadHeader(i) PROVE Goal
  <2>1. PICK x \in Headers : x = Head(toIot[i])
    BY <1>18, FrontOfRequests DEF IotReadHeader, Headers
  <2>2. \A m \in Headers : (InFrom(m)' <=> InFrom(m)) /\ (AtReactor(m)' <=> AtReactor(m)) /\
          (InTasks(m)' <=> InTasks(m)) /\ (AtWorker(m)' <=> AtWorker(m))
    BY <1>18 DEF IotReadHeader, Has, InFrom, AtReactor, InTasks, AtWorker
  <2>3. \A m \in Headers : InTo(m)' <=> InTo(m) /\ m # x
    <3>1. TookFrom(toIot, i, toIot')
      BY <1>18 DEF IotReadHeader, TookFrom, NetTypes
    <3>2. Head(toIot[i]) = toIot[i][1] /\ 1 \in 1 .. Len(toIot[i])
      BY <1>18, TakeOne DEF IotReadHeader, NetTypes
    <3>3. x.kind = "header" /\ HomeOf(x) = i
      BY <2>1, <3>2 DEF RequestHeaders, Headers
    <3>4. \A d \in Iots : \A j \in 1 .. Len(toIot[d]) : toIot[d][j] = Head(toIot[i]) =>
            d = i /\ j = 1
      BY <2>1, <3>2, <3>3 DEF RequestHeaders, OnceInv
    <3>5. ~Has(toIot', x) /\ \A m : m # x => (Has(toIot', m) <=> Has(toIot, m))
      BY <2>1, <3>1, <3>4, TakenIsGone
    <3> QED
      BY <3>5 DEF InTo
  <2>4. \A m \in Headers : AtIot(m)' <=> AtIot(m) \/ m = x
    <3>1. iot'[i].at \in {"read", "write"} /\ iot'[i].header = x /\ iot[i].at = "header"
      BY <1>18, <2>1 DEF IotReadHeader, DeviceTypes, IotAt
    <3>2. \A d \in Iots \ {i} : iot'[d] = iot[d]
      BY <1>18 DEF IotReadHeader, DeviceTypes
    <3> QED
      BY <3>1, <3>2 DEF AtIot
  <2>5. Moved("to", "iot", x)
    BY <2>2, <2>3, <2>4 DEF Moved, Turns
  <2>6. In("to", x)
    <3>1. Has(toIot, Head(toIot[i]))
      <4>1. TookFrom(toIot, i, toIot')
        BY <1>18 DEF IotReadHeader, TookFrom, NetTypes
      <4> QED
        BY <4>1, TakenIsGone
    <3> QED
      BY <2>1, <3>1 DEF In, InTo
  <2> QED
    BY <2>5, <2>6 DEF Carried, Stages
<1>19. ASSUME NEW i \in Iots, IotWrite(i) PROVE Goal
  <2>1. ASSUME NEW m \in Headers
        PROVE  (InFrom(m)' <=> InFrom(m)) /\ (AtReactor(m)' <=> AtReactor(m)) /\
                 (InTasks(m)' <=> InTasks(m))
               /\ (AtWorker(m)' <=> AtWorker(m))
    BY <1>19 DEF IotWrite, Has, InFrom, AtReactor, InTasks, AtWorker
  <2>2. \A m \in Headers : InTo(m)' <=> InTo(m)
    <3>1. TookFrom(toIot, i, toIot')
      BY <1>19 DEF IotWrite, TookFrom, NetTypes
    <3>2. Head(toIot[i]) \notin Headers
      BY <1>19, FrontOfRequests DEF IotWrite, DataMessages, Headers
    <3>3. \A m \in Headers : Has(toIot', m) <=> Has(toIot, m)
      BY <3>1, <3>2, TakenIsGone
    <3> QED
      BY <3>3 DEF InTo
  <2>3. \A m \in Headers : AtIot(m)' <=> AtIot(m)
    <3>1. iot'[i].at = "ack" /\ iot[i].at = "write" /\ iot'[i].header = iot[i].header
      BY <1>19 DEF IotWrite, DeviceTypes, IotAt
    <3>2. \A d \in Iots \ {i} : iot'[d] = iot[d]
      BY <1>19 DEF IotWrite, DeviceTypes
    <3> QED
      BY <3>1, <3>2 DEF AtIot
  <2> QED
    BY <2>1, <2>2, <2>3 DEF Quiet, Moved, Turns
<1>20. ASSUME NEW i \in Iots, IotSendHeader(i) PROVE Goal
  <2>1. PICK x \in Headers : x = iot[i].header
    BY <1>20 DEF IotSendHeader, DeviceHeaders, WasSent, IsHeader
  <2>2. \A m \in Headers : (InTo(m)' <=> InTo(m)) /\ (AtReactor(m)' <=> AtReactor(m)) /\
          (InTasks(m)' <=> InTasks(m)) /\ (AtWorker(m)' <=> AtWorker(m))
    BY <1>20 DEF IotSendHeader, Has, InTo, AtReactor, InTasks, AtWorker
  <2>3. \A m \in Headers : AtIot(m)' <=> AtIot(m) /\ m # x
    <3>1. iot'[i].at \in {"sendData", "header"}
      BY <1>20 DEF IotSendHeader, DeviceTypes, IotAt, IotIdle
    <3>2. \A d \in Iots \ {i} : iot'[d] = iot[d]
      BY <1>20 DEF IotSendHeader, DeviceTypes
    <3>3. HomeOf(x) = i
      BY <1>20, <2>1 DEF IotSendHeader, DeviceHeaders
    <3>4. \A d \in Iots \ {i} : iot[d].at \in {"read", "write", "ack"} => iot[d].header # x
      BY <3>3 DEF DeviceHeaders
    <3> QED
      BY <2>1, <3>1, <3>2, <3>4 DEF AtIot
  <2>4. \A m \in Headers : InFrom(m)' <=> InFrom(m) \/ m = x
    <3>1. fromIot' = [fromIot EXCEPT ![i] = Append(fromIot[i], x)]
      BY <1>20, <2>1 DEF IotSendHeader
    <3>2. \A m : Has(fromIot', m) <=> Has(fromIot, m) \/ m = x
      <4>1. AddedTo(fromIot, i, x, fromIot')
        BY <3>1 DEF AddedTo, NetTypes, Messages
      <4> QED
        BY <4>1, PutIsThere
    <3> QED
      BY <3>2 DEF InFrom
  <2>5. Moved("iot", "from", x)
    BY <2>2, <2>3, <2>4 DEF Moved, Turns
  <2>6. In("iot", x)
    BY <1>20, <2>1 DEF IotSendHeader, In, AtIot
  <2> QED
    BY <2>5, <2>6 DEF Carried, Stages
<1>21. ASSUME NEW i \in Iots, IotSendData(i) PROVE Goal
  <2>1. ASSUME NEW m \in Headers
        PROVE  (InTo(m)' <=> InTo(m)) /\ (AtReactor(m)' <=> AtReactor(m)) /\
                 (InTasks(m)' <=> InTasks(m))
               /\ (AtWorker(m)' <=> AtWorker(m))
    BY <1>21 DEF IotSendData, Has, InTo, AtReactor, InTasks, AtWorker
  <2>2. \A m \in Headers : AtIot(m)' <=> AtIot(m)
    <3>1. iot'[i].at = "header" /\ iot[i].at = "sendData"
      BY <1>21 DEF IotSendData, DeviceTypes, IotIdle
    <3>2. \A d \in Iots \ {i} : iot'[d] = iot[d]
      BY <1>21 DEF IotSendData, DeviceTypes
    <3> QED
      BY <3>1, <3>2 DEF AtIot
  <2>3. \A m \in Headers : InFrom(m)' <=> InFrom(m)
    <3>1. PICK v : v = storage[i][iot[i].header.m_iotOffset]
      OBVIOUS
    <3>2. iot[i].header.m_iotOffset \in Offsets
      BY <1>21 DEF IotSendData, DeviceHeaders, WasSent, IsHeader, Headers
    <3>3. Data(v) \in Messages /\ Data(v) \notin Headers
      BY <3>1, <3>2 DEF DeviceTypes, Messages, Data, DataMessages, Headers
    <3>4. fromIot' = [fromIot EXCEPT ![i] = Append(fromIot[i], Data(v))]
      BY <1>21, <3>1 DEF IotSendData
    <3>5. \A m : Has(fromIot', m) <=> Has(fromIot, m) \/ m = Data(v)
      <4>1. AddedTo(fromIot, i, Data(v), fromIot')
        BY <3>3, <3>4 DEF AddedTo, NetTypes
      <4> QED
        BY <4>1, PutIsThere
    <3> QED
      BY <3>3, <3>5 DEF InFrom
  <2> QED
    BY <2>1, <2>2, <2>3 DEF Quiet, Moved, Turns
<1>22. ASSUME NEW i \in Iots, IotFail(i) PROVE Goal
  BY <1>22 DEF IotFail, Broken, DeviceTypes
<1>23. CASE UNCHANGED vars
  <2>1. ASSUME NEW m \in Headers
        PROVE  (InTo(m)' <=> InTo(m)) /\ (AtIot(m)' <=> AtIot(m)) /\ (InFrom(m)' <=> InFrom(m))
               /\ (AtReactor(m)' <=> AtReactor(m)) /\ (InTasks(m)' <=> InTasks(m)) /\
                    (AtWorker(m)' <=> AtWorker(m))
    BY <1>23 DEF vars, Has, InTo, AtIot, InFrom, AtReactor, InTasks, AtWorker
  <2> QED
    BY <2>1 DEF Quiet, Moved, Turns
<1> QED
  BY <1>1, <1>2, <1>3, <1>4, <1>5, <1>6, <1>7, <1>8, <1>9, <1>10, <1>11, <1>12, <1>13,
     <1>14, <1>15, <1>16, <1>17, <1>18, <1>19, <1>20, <1>21, <1>22, <1>23
  DEF Next, Reactor, Worker, Iot, Stop

\* While the devices are up no header was made up.
LEMMA NoneMadeUp ==
  ASSUME TypeInv, HeaderInv, ~Broken
  PROVE  eofReads = 0
BY BoundsAssumption DEF TypeInv, ReactorTypes, HeaderInv, ReactorHeaders

\* SendHeader sends a header that was nowhere.
LEMMA SentHeaderEnters ==
  ASSUME TypeInv, ServeInv, HeaderInv, ~Broken, [Next]_vars, NEW w \in Workers, SendHeader(w)
  PROVE  ~Somewhere(Sending(w)) /\ Moved("none", "to", Sending(w))
<1> USE DEF kernelVars, requestVars, reactorVars, workerVars, slicerVars, netVars, iotVars
<1>0. TaskTypes /\ WorkerTypes /\ NetTypes
  BY DEF TypeInv
<1>1. PICK d \in Iots, x \in Headers : d = SendingTo(w) /\ x = Sending(w)
  BY CurrentFragment DEF SendHeader, Sends
<1>2. x.owner = held[w] /\ x.m_fragmentIdx = frag[w] /\ frag[w] \in Nat /\ x.kind = "header"
  BY <1>1, CurrentFragment, MadeHeader DEF SendHeader, Sending, Sends
<1>3. ~IsSent(x) /\ ~WasSent(x)
  BY <1>2 DEF SendHeader, IsSent, WasSent, Serves, Sends, NextFrag
<1>4. ~InTo(x) /\ ~AtIot(x) /\ ~InFrom(x) /\ ~AtReactor(x) /\ ~InTasks(x) /\ ~AtWorker(x)
  <2>1. eofReads = 0
    BY NoneMadeUp
  <2> QED
    BY <1>2, <1>3, <2>1 DEF InTo, AtIot, InFrom, AtReactor, InTasks, AtWorker, Has, HeaderInv,
       RequestHeaders, ReplyHeaders, DeviceHeaders, ReactorHeaders, TaskHeaders, Known
<1>5. ~Somewhere(x)
  BY <1>4 DEF Somewhere, In
<1>6. toIot' = [toIot EXCEPT ![d] = Append(toIot[d], x)]
  <2>1. iot[d] # Closed
    BY DEF Broken
  <2>2. SendTo(d, x)
    BY <1>1, CurrentFragment DEF SendHeader, Sends
  <2> QED
    BY <2>1, <2>2 DEF SendTo
<1>7. \A m : InTo(m)' <=> InTo(m) \/ m = x
  <2>1. AddedTo(toIot, d, x, toIot')
    BY <1>0, <1>6 DEF AddedTo, NetTypes, Messages
  <2> QED
    BY <2>1, PutIsThere DEF InTo
<1>8. \A m \in Headers : /\ (AtIot(m)' <=> AtIot(m)) /\ (InFrom(m)' <=> InFrom(m))
                         /\ (AtReactor(m)' <=> AtReactor(m)) /\ (InTasks(m)' <=> InTasks(m))
  BY DEF SendHeader, AtIot, InFrom, AtReactor, InTasks, Has
<1>9. \A m \in Headers : AtWorker(m)' <=> AtWorker(m)
  <2>1. \A v \in Workers : /\ pc'[v] = "reply" <=> pc[v] = "reply"
                           /\ pc[v] = "reply" => task'[v] = task[v]
    BY <1>0 DEF SendHeader, GoTo, NextFragment, WorkerTypes, TaskTypes
  <2> QED
    BY <2>1 DEF AtWorker
<1>10. Moved("none", "to", x)
  BY <1>7, <1>8, <1>9 DEF Moved, Turns
<1> QED
  BY <1>1, <1>5, <1>10

\* Reply takes its header out of the system, if it finds a slicer for it.
LEMMA RepliedHeaderLeaves ==
  ASSUME TypeInv, HeaderInv, WorkersOnce, ~Broken, [Next]_vars, NEW w \in Workers, Reply(w),
         NEW x, x = task[w].header
  PROVE  \/ Strays(x.m_requestUid, {x.m_fragmentIdx}) /\ Quiet
         \/ /\ \E h \in Handles : Finds(w, x.m_requestUid, {x.m_fragmentIdx}, h)
            /\ Moved("worker", "none", x)
<1> USE DEF kernelVars, requestVars, reactorVars, workerVars, slicerVars, netVars, iotVars
<1>0. TaskTypes /\ WorkerTypes
  BY DEF TypeInv
<1>1. \A m \in Headers : /\ (InTo(m)' <=> InTo(m)) /\ (AtIot(m)' <=> AtIot(m))
                         /\ (InFrom(m)' <=> InFrom(m)) /\ (AtReactor(m)' <=> AtReactor(m))
                         /\ (InTasks(m)' <=> InTasks(m))
  BY DEF Reply, InTo, AtIot, InFrom, AtReactor, InTasks, Has
<1>2. /\ WasSent(x) /\ x \in Headers
      /\ \/ Strays(x.m_requestUid, {x.m_fragmentIdx})
         \/ \E h \in Handles : Finds(w, x.m_requestUid, {x.m_fragmentIdx}, h)
  BY NoneMadeUp, SentReply DEF WasSent, IsHeader
<1>3. task' = task /\ pc[w] = "reply"
  BY DEF Reply
<1>4. CASE Strays(x.m_requestUid, {x.m_fragmentIdx})
  <2>1. pc' = pc
    BY <1>4 DEF Strays
  <2> QED
    BY <1>1, <1>3, <1>4, <2>1 DEF AtWorker, Quiet, Moved, Turns
<1>5. CASE \E h \in Handles : Finds(w, x.m_requestUid, {x.m_fragmentIdx}, h)
  <2>1. pc'[w] = "release" /\ \A v \in Workers \ {w} : pc'[v] = pc[v]
    BY <1>0, <1>5 DEF Finds, GoTo, WorkerTypes
  <2>2. \A m \in Headers : AtWorker(m)' <=> AtWorker(m) /\ m # x
    BY <1>2, <1>3, <2>1 DEF AtWorker, WorkersOnce
  <2>3. Moved("worker", "none", x)
    BY <1>1, <2>2 DEF Moved, Turns
  <2> QED
    BY <1>5, <2>3
<1> QED
  BY <1>2, <1>4, <1>5

(***************************************************************************)
(* A header that is once on a stream stays so.                             *)
(***************************************************************************)
LEMMA OnceTaken ==
  ASSUME NEW f, NEW i, NEW g, TookFrom(f, i, g), Once(f)
  PROVE  Once(g)
<1>1. /\ i \in Iots /\ f[i] # <<>> /\ f[i] \in Seq(Messages)
      /\ \A d \in Iots : g[d] = IF d = i THEN Tail(f[i]) ELSE f[d]
  BY DEF TookFrom
<1>2. \A j \in 1 .. Len(Tail(f[i])) : j + 1 \in 1 .. Len(f[i]) /\ Tail(f[i])[j] = f[i][j + 1]
  BY <1>1, TakeOne
<1> SUFFICES ASSUME NEW d \in Iots, NEW j \in 1 .. Len(g[d]), NEW k \in 1 .. Len(g[d]),
                    g[d][j].kind = "header", g[d][j] = g[d][k]
             PROVE  j = k
  BY DEF Once
<1>3. CASE d # i
  BY <1>1, <1>3 DEF Once
<1>4. CASE d = i
  <2>1. g[d] = Tail(f[i])
    BY <1>1, <1>4
  <2>2. /\ j + 1 \in 1 .. Len(f[i]) /\ k + 1 \in 1 .. Len(f[i])
        /\ f[i][j + 1].kind = "header" /\ f[i][j + 1] = f[i][k + 1]
    BY <1>2, <2>1
  <2>3. j + 1 = k + 1
    BY <1>1, <2>2 DEF Once
  <2> QED
    BY <2>3
<1> QED
  BY <1>3, <1>4

\* A new header leaves every header on the connections once.
LEMMA OnceAdded ==
  ASSUME NEW f, NEW i, NEW x, NEW g, AddedTo(f, i, x, g), Once(f), x.kind = "header" => ~Has(f, x)
  PROVE  Once(g)
<1>1. /\ i \in Iots /\ f[i] \in Seq(Messages) /\ x \in Messages
      /\ \A d \in Iots : g[d] = IF d = i THEN Append(f[i], x) ELSE f[d]
  BY DEF AddedTo
<1>2. PICK n \in Nat : n = Len(f[i])
  BY <1>1, LenProperties
<1>3. /\ Len(Append(f[i], x)) = n + 1 /\ Append(f[i], x)[n + 1] = x
      /\ \A j \in 1 .. n : Append(f[i], x)[j] = f[i][j]
  BY <1>1, <1>2, PutOne
<1>4. \A j \in 1 .. n : f[i][j] = x => x.kind # "header"
  BY <1>1, <1>2 DEF Has
<1> SUFFICES ASSUME NEW d \in Iots, NEW j \in 1 .. Len(g[d]), NEW k \in 1 .. Len(g[d]),
                    g[d][j].kind = "header", g[d][j] = g[d][k]
             PROVE  j = k
  BY DEF Once
<1>5. CASE d # i
  BY <1>1, <1>5 DEF Once
<1>6. CASE d = i
  <2>1. PICK s : s = Append(f[i], x)
    OBVIOUS
  <2>2. s[j].kind = "header" /\ s[j] = s[k] /\ j \in 1 .. n + 1 /\ k \in 1 .. n + 1
    BY <1>1, <1>3, <1>6, <2>1
  <2>3. (j \in 1 .. n \/ j = n + 1) /\ (k \in 1 .. n \/ k = n + 1)
    BY <2>2
  <2>4. CASE j \in 1 .. n /\ k \in 1 .. n
    <3>1. f[i][j].kind = "header" /\ f[i][j] = f[i][k]
      BY <1>3, <2>1, <2>2, <2>4
    <3> QED
      BY <1>1, <1>2, <2>4, <3>1 DEF Once
  <2>5. CASE j \in 1 .. n /\ k = n + 1
    <3>1. f[i][j].kind = "header" /\ f[i][j] = x
      BY <1>3, <2>1, <2>2, <2>5
    <3> QED
      BY <1>4, <2>5, <3>1
  <2>6. CASE k \in 1 .. n /\ j = n + 1
    <3>1. x.kind = "header" /\ f[i][k] = x
      BY <1>3, <2>1, <2>2, <2>6
    <3> QED
      BY <1>4, <2>6, <3>1
  <2> QED
    BY <2>3, <2>4, <2>5, <2>6
<1> QED
  BY <1>5, <1>6

(***************************************************************************)
(* A header moves from where it was and nowhere else, and is sent once.    *)
(***************************************************************************)
LEMMA OnePlaceKept ==
  ASSUME TypeInv, ServeInv, HeaderInv, FrameInv, OnceInv, UniqueInv, ~Broken', [Next]_vars
  PROVE  OnePlace'
<1>1. ~Broken /\ OnePlace /\ WorkersOnce
  BY BrokenStays DEF UniqueInv
<1>2. ASSUME NEW a, NEW b, NEW x, Moved(a, b, x),
             b \in Stages => (a \in Stages /\ In(a, x)) \/ ~Somewhere(x)
      PROVE  OnePlace'
  <2>1. \A stage \in Stages, m \in Headers :
          In(stage, m)' <=> (In(stage, m) /\ ~(stage = a /\ m = x)) \/ (stage = b /\ m = x)
    BY <1>2, MovedIs
  <2>2. ASSUME NEW m \in Headers, NEW s \in Stages, NEW t \in Stages, In(s, m)', In(t, m)'
        PROVE  s = t
    <3>1. /\ (In(s, m) /\ ~(s = a /\ m = x)) \/ (s = b /\ m = x)
          /\ (In(t, m) /\ ~(t = a /\ m = x)) \/ (t = b /\ m = x)
      BY <2>1, <2>2
    <3> QED
      BY <1>1, <1>2, <3>1 DEF OnePlace, Somewhere
  <2> QED
    BY <2>2 DEF OnePlace
<1>3. "none" \notin Stages /\ "to" \in Stages
  BY DEF Stages
<1>4. CASE Quiet
  BY <1>2, <1>3, <1>4 DEF Quiet
<1>5. CASE Carried
  BY <1>2, <1>5 DEF Carried
<1>6. ASSUME NEW w \in Workers, SendHeader(w) PROVE OnePlace'
  BY <1>1, <1>2, <1>6, SentHeaderEnters
<1>7. ASSUME NEW w \in Workers, Reply(w) PROVE OnePlace'
  BY <1>1, <1>2, <1>3, <1>4, <1>7, RepliedHeaderLeaves
<1> QED
  BY <1>4, <1>5, <1>6, <1>7, HeadersTravel

(***************************************************************************)
(* Every step keeps a header once at each stage.                           *)
(***************************************************************************)
LEMMA OnceEach ==
  ASSUME TypeInv, ServeInv, HeaderInv, FrameInv, OnceInv, UniqueInv, ~Broken', [Next]_vars
  PROVE  RepliesOnce' /\ TasksOnce' /\ WorkersOnce'
<1> DEFINE Goal == RepliesOnce' /\ TasksOnce' /\ WorkersOnce'
<1> SUFFICES Goal
  OBVIOUS
<1> USE DEF kernelVars, requestVars, reactorVars, workerVars, slicerVars, netVars, iotVars,
            iotUnchanged
<1>0. KernelTypes /\ ReactorTypes /\ TaskTypes /\ WorkerTypes /\ NetTypes /\ DeviceTypes
  BY DEF TypeInv
<1>00. RequestHeaders /\ ReplyHeaders /\ DeviceHeaders /\ ReactorHeaders /\ TaskHeaders
  BY DEF HeaderInv
<1>01. ~Broken /\ eofReads = 0 /\ OnePlace /\ RepliesOnce /\ TasksOnce /\ WorkersOnce
  BY <1>0, <1>00, BrokenStays DEF UniqueInv, ReactorTypes, ReactorHeaders
<1> USE <1>0, <1>00, <1>01
<1>1. ASSUME NEW g \in Handles, NEW s \in Shapes, KernelSubmit(g, s) PROVE Goal
  BY <1>1 DEF KernelSubmit, RepliesOnce, TasksOnce, WorkersOnce
<1>2. CASE KernelShutdown
  BY <1>2 DEF KernelShutdown, RepliesOnce, TasksOnce, WorkersOnce
<1>3. CASE ManageRequests
  <2>1. \A t \in tasks' : t \in tasks \/ t.kind = "request"
    BY <1>3 DEF ManageRequests, RequestTask
  <2>2. TasksOnce'
    BY <2>1 DEF TasksOnce
  <2> QED
    BY <1>3, <2>2 DEF ManageRequests, RepliesOnce, WorkersOnce
<1>4. CASE ReactorReturn
  BY <1>4 DEF ReactorReturn, RepliesOnce, TasksOnce, WorkersOnce
<1>5. CASE ReactorAtEof
  BY <1>5 DEF ReactorAtEof, RepliesOnce, TasksOnce, WorkersOnce
<1>6. ASSUME NEW i \in Iots, ManageReplies(i) PROVE Goal
  <2>1. TookFrom(fromIot, i, fromIot') /\ UNCHANGED <<pc, task>>
    BY <1>6 DEF ManageReplies, TookFrom, NetTypes
  <2>2. RepliesOnce' /\ WorkersOnce'
    BY <2>1, OnceTaken DEF RepliesOnce, WorkersOnce
  <2>3. PICK x \in Headers : x = Head(fromIot[i])
    BY <1>6, FrontOfReplies DEF ManageReplies, Headers
  <2>4. In("from", x)
    BY <2>1, <2>3, TakenIsGone DEF In, InFrom
  <2>5. ~InTasks(x)
    BY <2>4 DEF OnePlace, Stages, In
  <2>6. tasks' = tasks \/ tasks' = tasks \cup {ReplyTask(x, Junk)}
    BY <1>6, <2>3 DEF ManageReplies
  <2>7. ReplyTask(x, Junk).header = x
    BY DEF ReplyTask
  <2>8. TasksOnce'
    BY <2>5, <2>6, <2>7 DEF TasksOnce, InTasks
  <2> QED
    BY <2>2, <2>8
<1>7. ASSUME NEW i \in Iots, ManageRepliesData(i) PROVE Goal
  <2>1. TookFrom(fromIot, i, fromIot') /\ UNCHANGED <<pc, task>>
    <3>1. ~AtEof(i)
      BY DEF AtEof, Broken
    <3> QED
      BY <1>7, <3>1 DEF ManageRepliesData, TookFrom, NetTypes
  <2>2. RepliesOnce' /\ WorkersOnce'
    BY <2>1, OnceTaken DEF RepliesOnce, WorkersOnce
  <2>3. PICK x \in Headers : x = reactor.header
    BY <1>7 DEF ManageRepliesData, ReactorHeaders, WasSent, IsHeader
  <2>4. In("reactor", x)
    BY <1>7, <2>3 DEF ManageRepliesData, In, AtReactor
  <2>5. ~InTasks(x)
    BY <2>4 DEF OnePlace, Stages, In
  <2>6. PICK v : tasks' = tasks \cup {ReplyTask(x, v)}
    BY <1>7, <2>3 DEF ManageRepliesData
  <2>7. ReplyTask(x, v).header = x
    BY DEF ReplyTask
  <2>8. TasksOnce'
    BY <2>5, <2>6, <2>7 DEF TasksOnce, InTasks
  <2> QED
    BY <2>2, <2>8
<1>8. ASSUME NEW i \in Iots, ManageRepliesEof(i) PROVE Goal
  BY <1>8 DEF ManageRepliesEof, AtEof, Broken
<1>9. ASSUME NEW w \in Workers, Pop(w) PROVE Goal
  <2>1. PICK t \in tasks : /\ tasks' = tasks \ {t} /\ task' = [task EXCEPT ![w] = t]
                           /\ IF t.kind = "request" THEN GoTo(w, "slice") ELSE GoTo(w, "reply")
    BY <1>9 DEF Pop
  <2>2. \A v \in Workers \ {w} : pc'[v] = pc[v] /\ task'[v] = task[v]
    BY <2>1 DEF GoTo, WorkerTypes, TaskTypes
  <2>3. TasksOnce' /\ RepliesOnce'
    BY <1>9, <2>1 DEF Pop, TasksOnce, RepliesOnce
  <2>4. CASE t.kind = "request"
    <3>1. pc'[w] = "slice"
      BY <2>1, <2>4 DEF GoTo, WorkerTypes
    <3>2. WorkersOnce'
      BY <2>2, <3>1 DEF WorkersOnce
    <3> QED
      BY <2>3, <3>2
  <2>5. CASE t.kind # "request"
    <3>1. t.kind = "reply" /\ task'[w] = t
      BY <2>1, <2>5 DEF TaskTypes, RequestTasks, ReplyTasks
    <3>2. PICK x \in Headers : x = t.header
      BY NoneMadeUp, <2>1, <3>1 DEF HeaderInv, TaskHeaders, Known, WasSent, IsHeader
    <3>3. In("tasks", x)
      BY <3>1, <3>2 DEF In, InTasks
    <3>4. ~AtWorker(x)
      BY <3>3 DEF OnePlace, Stages, In
    <3>5. \A v \in Workers \ {w} : pc'[v] = "reply" => task'[v].header # x
      BY <2>2, <3>4 DEF AtWorker
    <3>6. WorkersOnce'
      BY <2>2, <3>1, <3>2, <3>5 DEF WorkersOnce
    <3> QED
      BY <2>3, <3>6
  <2> QED
    BY <2>4, <2>5
<1>10. ASSUME NEW w \in Workers, Slice(w) PROVE Goal
  <2>1. \A v \in Workers : pc'[v] = "reply" => pc[v] = "reply" /\ task'[v] = task[v]
    BY <1>10 DEF Slice, GoTo, NextFragment, WorkerTypes, TaskTypes
  <2>2. WorkersOnce'
    BY <2>1 DEF WorkersOnce
  <2> QED
    BY <1>10, <2>2 DEF Slice, RepliesOnce, TasksOnce
<1>11. ASSUME NEW w \in Workers, InsertSlicer(w) PROVE Goal
  <2>1. \A v \in Workers : pc'[v] = "reply" => pc[v] = "reply" /\ task'[v] = task[v]
    BY <1>11 DEF InsertSlicer, GoTo, NextFragment, WorkerTypes, TaskTypes
  <2>2. WorkersOnce'
    BY <2>1 DEF WorkersOnce
  <2> QED
    BY <1>11, <2>2 DEF InsertSlicer, RepliesOnce, TasksOnce
<1>12. ASSUME NEW w \in Workers, SenderLock(w) PROVE Goal
  <2>1. \A v \in Workers : pc'[v] = "reply" => pc[v] = "reply" /\ task'[v] = task[v]
    BY <1>12 DEF SenderLock, GoTo, NextFragment, WorkerTypes, TaskTypes
  <2>2. WorkersOnce'
    BY <2>1 DEF WorkersOnce
  <2> QED
    BY <1>12, <2>2 DEF SenderLock, RepliesOnce, TasksOnce
<1>13. ASSUME NEW w \in Workers, SendHeader(w) PROVE Goal
  <2>1. \A v \in Workers : pc'[v] = "reply" => pc[v] = "reply" /\ task'[v] = task[v]
    BY <1>13 DEF SendHeader, GoTo, NextFragment, WorkerTypes, TaskTypes
  <2>2. WorkersOnce'
    BY <2>1 DEF WorkersOnce
  <2> QED
    BY <1>13, <2>2 DEF SendHeader, RepliesOnce, TasksOnce
<1>14. ASSUME NEW w \in Workers, SendData(w) PROVE Goal
  <2>1. \A v \in Workers : pc'[v] = "reply" => pc[v] = "reply" /\ task'[v] = task[v]
    BY <1>14 DEF SendData, GoTo, NextFragment, WorkerTypes, TaskTypes
  <2>2. WorkersOnce'
    BY <2>1 DEF WorkersOnce
  <2> QED
    BY <1>14, <2>2 DEF SendData, RepliesOnce, TasksOnce
<1>15. ASSUME NEW w \in Workers, SendFails(w) PROVE Goal
  BY <1>15 DEF SendFails, RepliesOnce, TasksOnce, WorkersOnce
<1>16. ASSUME NEW w \in Workers, Reply(w) PROVE Goal
  <2>1. \A v \in Workers : pc'[v] = "reply" => pc[v] = "reply" /\ task'[v] = task[v]
    BY <1>16 DEF Reply, GoTo, NextFragment, WorkerTypes, TaskTypes
  <2>2. WorkersOnce'
    BY <2>1 DEF WorkersOnce
  <2> QED
    BY <1>16, <2>2 DEF Reply, RepliesOnce, TasksOnce
<1>17. ASSUME NEW w \in Workers, Release(w) PROVE Goal
  <2>1. \A v \in Workers : pc'[v] = "reply" => pc[v] = "reply" /\ task'[v] = task[v]
    BY <1>17 DEF Release, GoTo, NextFragment, WorkerTypes, TaskTypes
  <2>2. WorkersOnce'
    BY <2>1 DEF WorkersOnce
  <2> QED
    BY <1>17, <2>2 DEF Release, RepliesOnce, TasksOnce
<1>18. ASSUME NEW i \in Iots, IotReadHeader(i) PROVE Goal
  BY <1>18 DEF IotReadHeader, RepliesOnce, TasksOnce, WorkersOnce
<1>19. ASSUME NEW i \in Iots, IotWrite(i) PROVE Goal
  BY <1>19 DEF IotWrite, RepliesOnce, TasksOnce, WorkersOnce
<1>20. ASSUME NEW i \in Iots, IotSendHeader(i) PROVE Goal
  <2>1. PICK x \in Headers : x = iot[i].header
    BY <1>20 DEF IotSendHeader, DeviceHeaders, WasSent, IsHeader
  <2>2. AddedTo(fromIot, i, x, fromIot')
    BY <1>20, <2>1 DEF IotSendHeader, AddedTo, NetTypes, Messages
  <2>3. In("iot", x)
    BY <1>20, <2>1 DEF IotSendHeader, In, AtIot
  <2>4. ~Has(fromIot, x)
    BY <2>3 DEF OnePlace, Stages, In, InFrom
  <2>5. RepliesOnce'
    BY <2>2, <2>4, OnceAdded DEF RepliesOnce
  <2> QED
    BY <1>20, <2>5 DEF IotSendHeader, TasksOnce, WorkersOnce
<1>21. ASSUME NEW i \in Iots, IotSendData(i) PROVE Goal
  <2>1. PICK v : v = storage[i][iot[i].header.m_iotOffset]
    OBVIOUS
  <2>2. iot[i].header.m_iotOffset \in Offsets
    BY <1>21 DEF IotSendData, DeviceHeaders, WasSent, IsHeader, Headers
  <2>3. Data(v) \in Messages /\ Data(v).kind # "header"
    BY <2>1, <2>2 DEF DeviceTypes, Messages, Data, DataMessages
  <2>4. AddedTo(fromIot, i, Data(v), fromIot')
    BY <1>21, <2>1, <2>3 DEF IotSendData, AddedTo, NetTypes
  <2>5. RepliesOnce'
    BY <2>3, <2>4, OnceAdded DEF RepliesOnce
  <2> QED
    BY <1>21, <2>5 DEF IotSendData, TasksOnce, WorkersOnce
<1>22. ASSUME NEW i \in Iots, IotFail(i) PROVE Goal
  BY <1>22 DEF IotFail, Broken, DeviceTypes
<1>23. CASE UNCHANGED vars
  BY <1>23 DEF vars, RepliesOnce, TasksOnce, WorkersOnce
<1> QED
  BY <1>1, <1>2, <1>3, <1>4, <1>5, <1>6, <1>7, <1>8, <1>9, <1>10, <1>11, <1>12, <1>13,
     <1>14, <1>15, <1>16, <1>17, <1>18, <1>19, <1>20, <1>21, <1>22, <1>23
  DEF Next, Reactor, Worker, Iot, Stop

\* Every step keeps each header in one place, and there once.
LEMMA UniqueKept ==
  ASSUME TypeInv, ServeInv, HeaderInv, FrameInv, OnceInv, UniqueInv, [Next]_vars
  PROVE  UniqueInv'
<1>1. ASSUME ~Broken' PROVE OnePlace' /\ RepliesOnce' /\ TasksOnce' /\ WorkersOnce'
  BY <1>1, OnePlaceKept, OnceEach
<1> QED
  BY <1>1 DEF UniqueInv

(***************************************************************************)
(* Only SendHeader sends the header of a fragment.                         *)
(***************************************************************************)
LEMMA UnsentKept ==
  ASSUME TypeInv, ServeInv, [Next]_vars, NEW h \in Handles, Sliced(h),
         request[h] \in Shapes, NEW k \in Blocks(request[h])
  PROVE  (Unsent(h, k)' <=> Unsent(h, k)) \/ \E w \in Workers : SendHeader(w)
<1> DEFINE Goal == (\A v \in Workers : Misses(v, h, k)' <=> Misses(v, h, k)) \/
      \E w \in Workers : SendHeader(w)
<1> SUFFICES Goal
  BY DEF Unsent
<1> USE DEF kernelVars, requestVars, reactorVars, workerVars, slicerVars, netVars, iotVars,
            iotUnchanged
<1>0. KernelTypes /\ TaskTypes /\ WorkerTypes /\ WorkersOK /\ TasksOK
  BY DEF TypeInv, ServeInv
<1>01. k \in Nat /\ k < NumOf(h) /\ NumOf(h) \in Nat
  BY ShapeFacts DEF NumOf
<1> USE <1>0, <1>01
<1> HIDE DEF Goal
<1>1. ASSUME NEW g \in Handles, NEW s \in Shapes, KernelSubmit(g, s) PROVE Goal
  BY <1>1 DEF KernelSubmit, Goal, Misses, Serves, Sends, NextFrag
<1>2. CASE KernelShutdown
  BY <1>2 DEF KernelShutdown, Goal, Misses, Serves, Sends, NextFrag
<1>3. CASE ManageRequests
  BY <1>3 DEF ManageRequests, Goal, Misses, Serves, Sends, NextFrag
<1>4. CASE ReactorReturn
  BY <1>4 DEF ReactorReturn, Goal, Misses, Serves, Sends, NextFrag
<1>5. CASE ReactorAtEof
  BY <1>5 DEF ReactorAtEof, Goal, Misses, Serves, Sends, NextFrag
<1>6. ASSUME NEW i \in Iots, ManageReplies(i) PROVE Goal
  BY <1>6 DEF ManageReplies, Goal, Misses, Serves, Sends, NextFrag
<1>7. ASSUME NEW i \in Iots, ManageRepliesData(i) PROVE Goal
  BY <1>7 DEF ManageRepliesData, Goal, Misses, Serves, Sends, NextFrag
<1>8. ASSUME NEW i \in Iots, ManageRepliesEof(i) PROVE Goal
  BY <1>8 DEF ManageRepliesEof, Goal, Misses, Serves, Sends, NextFrag
<1>9. ASSUME NEW w \in Workers, Pop(w) PROVE Goal
  <2>1. \A v \in Workers \ {w} : pc'[v] = pc[v] /\ held'[v] = held[v] /\ frag'[v] = frag[v]
    BY <1>9 DEF Pop, GoTo, NextFragment, WorkerTypes
  <2>2. \A v \in Workers \ {w} : Misses(v, h, k)' <=> Misses(v, h, k)
    BY <2>1 DEF Misses, Serves, Sends, NextFrag
  <2>3. Misses(w, h, k)' <=> Misses(w, h, k)
    <3>1. pc[w] = "pop" /\ (pc'[w] = "reply" \/ (pc'[w] = "slice" /\ held'[w] # h))
      <4>1. PICK t \in tasks : IF t.kind = "request" THEN GoTo(w, "slice") /\
              held' = [held EXCEPT ![w] = t.h]
                              ELSE GoTo(w, "reply")
        BY <1>9 DEF Pop
      <4>2. t.kind = "request" => t.h \in Handles /\ t = RequestTask(t.h)
        BY DEF TaskTypes, RequestTasks, ReplyTasks, RequestTask
      <4>3. t.kind = "request" => t.h # h
        BY <4>2 DEF TasksOK, Unserved
      <4> QED
        BY <1>9, <4>1, <4>3 DEF Pop, GoTo, WorkerTypes
    <3> QED
      BY <3>1 DEF Misses, Serves, Sends, NextFrag
  <2> QED
    BY <2>2, <2>3 DEF Goal
<1>10. ASSUME NEW w \in Workers, Slice(w) PROVE Goal
  <2>1. \A v \in Workers \ {w} : pc'[v] = pc[v] /\ held'[v] = held[v] /\ frag'[v] = frag[v]
    BY <1>10 DEF Slice, GoTo, NextFragment, WorkerTypes
  <2>2. \A v \in Workers \ {w} : Misses(v, h, k)' <=> Misses(v, h, k)
    BY <2>1 DEF Misses, Serves, Sends, NextFrag
  <2>3. Misses(w, h, k)' <=> Misses(w, h, k)
    <3>1. pc[w] = "slice" /\ held[w] # h /\ held'[w] = held[w]
      BY <1>10 DEF Slice, WorkersOK
    <3> QED
      BY <3>1 DEF Misses, Serves, Sends, NextFrag
  <2> QED
    BY <2>2, <2>3 DEF Goal
<1>11. ASSUME NEW w \in Workers, InsertSlicer(w) PROVE Goal
  <2>1. \A v \in Workers \ {w} : pc'[v] = pc[v] /\ held'[v] = held[v] /\ frag'[v] = frag[v]
    BY <1>11 DEF InsertSlicer, GoTo, NextFragment, WorkerTypes
  <2>2. \A v \in Workers \ {w} : Misses(v, h, k)' <=> Misses(v, h, k)
    BY <2>1 DEF Misses, Serves, Sends, NextFrag
  <2>3. Misses(w, h, k)' <=> Misses(w, h, k)
    <3>1. pc[w] = "insert" /\ held'[w] = held[w] /\ frag'[w] = 0
          /\ (held[w] = h => pc'[w] = "send")
      BY <1>11 DEF InsertSlicer, GoTo, WorkerTypes
    <3> QED
      BY <3>1 DEF Misses, Serves, Sends, NextFrag
  <2> QED
    BY <2>2, <2>3 DEF Goal
<1>12. ASSUME NEW w \in Workers, SenderLock(w) PROVE Goal
  <2>1. \A v \in Workers \ {w} : pc'[v] = pc[v] /\ held'[v] = held[v] /\ frag'[v] = frag[v]
    BY <1>12 DEF SenderLock, GoTo, NextFragment, WorkerTypes
  <2>2. \A v \in Workers \ {w} : Misses(v, h, k)' <=> Misses(v, h, k)
    BY <2>1 DEF Misses, Serves, Sends, NextFrag
  <2>3. Misses(w, h, k)' <=> Misses(w, h, k)
    <3>1. pc[w] = "send" /\ pc'[w] = "sendHeader" /\ held'[w] = held[w] /\ frag'[w] = frag[w]
      BY <1>12 DEF SenderLock, GoTo, WorkerTypes
    <3> QED
      BY <3>1 DEF Misses, Serves, Sends, NextFrag
  <2> QED
    BY <2>2, <2>3 DEF Goal
<1>13. ASSUME NEW w \in Workers, SendHeader(w) PROVE Goal
  BY <1>13 DEF Goal
<1>14. ASSUME NEW w \in Workers, SendData(w) PROVE Goal
  <2>1. \A v \in Workers \ {w} : pc'[v] = pc[v] /\ held'[v] = held[v] /\ frag'[v] = frag[v]
    BY <1>14 DEF SendData, GoTo, NextFragment, WorkerTypes
  <2>2. \A v \in Workers \ {w} : Misses(v, h, k)' <=> Misses(v, h, k)
    BY <2>1 DEF Misses, Serves, Sends, NextFrag
  <2>3. Misses(w, h, k)' <=> Misses(w, h, k)
    <3>1. pc[w] = "sendData" /\ held'[w] = held[w] /\ frag[w] \in Nat /\ frag'[w] = frag[w] + 1
          /\ pc'[w] = IF frag[w] + 1 < NumOf(held[w]) THEN "send" ELSE "release"
      BY <1>14 DEF SendData, NextFragment, GoTo, WorkerTypes, NumOf
    <3> QED
      BY <3>1 DEF Misses, Serves, Sends, NextFrag
  <2> QED
    BY <2>2, <2>3 DEF Goal
<1>15. ASSUME NEW w \in Workers, SendFails(w) PROVE Goal
  BY <1>15 DEF SendFails, Goal, Misses, Serves, Sends, NextFrag
<1>16. ASSUME NEW w \in Workers, Reply(w) PROVE Goal
  <2>1. \A v \in Workers \ {w} : pc'[v] = pc[v] /\ held'[v] = held[v] /\ frag'[v] = frag[v]
    BY <1>16 DEF Reply, GoTo, NextFragment, WorkerTypes
  <2>2. \A v \in Workers \ {w} : Misses(v, h, k)' <=> Misses(v, h, k)
    BY <2>1 DEF Misses, Serves, Sends, NextFrag
  <2>3. Misses(w, h, k)' <=> Misses(w, h, k)
    <3>1. pc[w] = "reply" /\ pc'[w] \in {"reply", "release"}
      BY <1>16 DEF Reply, GoTo, WorkerTypes
    <3> QED
      BY <3>1 DEF Misses, Serves, Sends, NextFrag
  <2> QED
    BY <2>2, <2>3 DEF Goal
<1>17. ASSUME NEW w \in Workers, Release(w) PROVE Goal
  <2>1. \A v \in Workers \ {w} : pc'[v] = pc[v] /\ held'[v] = held[v] /\ frag'[v] = frag[v]
    BY <1>17 DEF Release, GoTo, NextFragment, WorkerTypes
  <2>2. \A v \in Workers \ {w} : Misses(v, h, k)' <=> Misses(v, h, k)
    BY <2>1 DEF Misses, Serves, Sends, NextFrag
  <2>3. Misses(w, h, k)' <=> Misses(w, h, k)
    <3>1. pc[w] = "release" /\ pc'[w] = "pop"
      BY <1>17 DEF Release, GoTo, WorkerTypes
    <3> QED
      BY <3>1 DEF Misses, Serves, Sends, NextFrag
  <2> QED
    BY <2>2, <2>3 DEF Goal
<1>18. ASSUME NEW i \in Iots, IotReadHeader(i) PROVE Goal
  BY <1>18 DEF IotReadHeader, Goal, Misses, Serves, Sends, NextFrag
<1>19. ASSUME NEW i \in Iots, IotWrite(i) PROVE Goal
  BY <1>19 DEF IotWrite, Goal, Misses, Serves, Sends, NextFrag
<1>20. ASSUME NEW i \in Iots, IotSendHeader(i) PROVE Goal
  BY <1>20 DEF IotSendHeader, Goal, Misses, Serves, Sends, NextFrag
<1>21. ASSUME NEW i \in Iots, IotSendData(i) PROVE Goal
  BY <1>21 DEF IotSendData, Goal, Misses, Serves, Sends, NextFrag
<1>22. ASSUME NEW i \in Iots, IotFail(i) PROVE Goal
  BY <1>22 DEF IotFail, Goal, Misses, Serves, Sends, NextFrag
<1>23. CASE UNCHANGED vars
  BY <1>23 DEF vars, Goal, Misses, Serves, Sends, NextFrag
<1> QED
  BY <1>1, <1>2, <1>3, <1>4, <1>5, <1>6, <1>7, <1>8, <1>9, <1>10, <1>11, <1>12, <1>13,
     <1>14, <1>15, <1>16, <1>17, <1>18, <1>19, <1>20, <1>21, <1>22, <1>23
  DEF Next, Reactor, Worker, Iot, Stop

\* SendHeader sends the fragment its worker is at, and no other.
LEMMA SentHeaderUnsent ==
  ASSUME TypeInv, ServeInv, NEW w \in Workers, SendHeader(w), NEW h \in Handles,
         request[h] \in Shapes,
         NEW k \in Blocks(request[h])
  PROVE  /\ Unsent(h, k)' <=> Unsent(h, k) /\ ~(h = held[w] /\ k = frag[w])
         /\ Unsent(held[w], frag[w])
<1>0. WorkerTypes /\ OneServer /\ frag[w] \in Nat
  BY DEF TypeInv, ServeInv, WorkerTypes
<1>1. k \in Nat /\ k < NumOf(h) /\ NumOf(h) \in Nat
  BY ShapeFacts DEF NumOf
<1>2. \A v \in Workers \ {w} : pc'[v] = pc[v] /\ held'[v] = held[v] /\ frag'[v] = frag[v]
  BY <1>0 DEF SendHeader, GoTo, NextFragment, WorkerTypes
<1>3. \A v \in Workers \ {w} : Misses(v, h, k)' <=> Misses(v, h, k)
  BY <1>2 DEF Misses, Serves, Sends, NextFrag
<1>4. /\ pc[w] = "sendHeader" /\ held'[w] = held[w]
      /\ \/ pc'[w] = "sendData" /\ frag'[w] = frag[w]
         \/ /\ frag'[w] = frag[w] + 1
            /\ pc'[w] = IF frag[w] + 1 < NumOf(held[w]) THEN "send" ELSE "release"
  BY <1>0 DEF SendHeader, NextFragment, GoTo, WorkerTypes, NumOf
<1>5. Misses(w, h, k)' <=> Misses(w, h, k) /\ k # frag[w]
  <2>1. CASE pc'[w] = "sendData" /\ frag'[w] = frag[w]
    BY <1>4, <2>1 DEF Misses, Serves, Sends, NextFrag
  <2>2. CASE /\ frag'[w] = frag[w] + 1
             /\ pc'[w] = IF frag[w] + 1 < NumOf(held[w]) THEN "send" ELSE "release"
    BY <1>0, <1>1, <1>4, <2>2 DEF Misses, Serves, Sends, NextFrag
  <2> QED
    BY <1>4, <2>1, <2>2
<1>6. Serves(w)
  BY <1>4 DEF Serves, Sends
<1>7. \A v \in Workers \ {w} : Misses(v, h, k) => h # held[w]
  BY <1>0, <1>6 DEF Misses, OneServer
<1>8. Misses(w, held[w], frag[w])
  BY <1>0, <1>4 DEF Misses, Serves, Sends, NextFrag
<1>9. Misses(w, h, k) => h = held[w]
  BY DEF Misses
<1> QED
  BY <1>3, <1>5, <1>7, <1>8, <1>9 DEF Unsent

(***************************************************************************)
(* What a slicer waits for changes by Reply alone.                         *)
(***************************************************************************)
Awaits ==
  \A h \in Handles : Sliced(h) => Outstanding(h)' = Outstanding(h)

\* What Slice made of a request stays: its blocks, its uid and its headers.
LEMMA FragmentStays ==
  ASSUME TypeInv, ServeInv, [Next]_vars, NEW h \in Handles, Sliced(h)
  PROVE  /\ request[h] \in Shapes /\ request'[h] = request[h] /\ Sliced(h)'
         /\ Blocks(request[h])' = Blocks(request[h]) /\ m_requestUid'[h] = m_requestUid[h]
         /\ \A k \in Blocks(request[h]) :
              /\ HeaderOf(h, k)' = HeaderOf(h, k) /\ HeaderOf(h, k) \in Headers
              /\ HeaderOf(h, k).owner = h /\ HeaderOf(h, k).m_fragmentIdx = k
              /\ k \in Nat /\ k < NumOf(h) /\ HeaderOf(h, k).m_type = request[h].type
              /\ Abroad(h, k) <=> Somewhere(HeaderOf(h, k))
<1>1. request[h] # Unset /\ request[h] \in Shapes
  BY DEF ServeInv, BuffersOK, HasBuffer, TypeInv, KernelTypes
<1>2. request'[h] = request[h] /\ m_requestUid'[h] = m_requestUid[h]
  BY <1>1, RequestsStay DEF Stays
<1>3. ASSUME NEW k \in Blocks(request[h])
      PROVE  /\ HeaderOf(h, k)' = HeaderOf(h, k) /\ HeaderOf(h, k) \in Headers
             /\ HeaderOf(h, k).owner = h /\ HeaderOf(h, k).m_fragmentIdx = k
             /\ k \in Nat /\ k < NumOf(h) /\ HeaderOf(h, k).m_type = request[h].type
             /\ Abroad(h, k) <=> Somewhere(HeaderOf(h, k))
  <2>1. k \in Nat /\ k < NumOf(h)
    BY <1>1, ShapeFacts DEF NumOf
  <2>2. /\ HeaderOf(h, k) \in Headers /\ HeaderOf(h, k).owner = h /\
             HeaderOf(h, k).m_fragmentIdx = k
        /\ HeaderOf(h, k).m_type = request[h].type
    BY <1>1, <2>1, MadeHeader
  <2>3. HeaderOf(h, k)' = HeaderOf(h, k)
    BY <1>2 DEF HeaderOf, Place, NumOf
  <2>4. Abroad(h, k) <=> Somewhere(HeaderOf(h, k))
    BY <2>2 DEF Abroad
  <2> QED
    BY <2>1, <2>2, <2>3, <2>4
<1> QED
  BY <1>1, <1>2, <1>3 DEF Sliced

\* Only Reply changes what the slicers wait for.
LEMMA AwaitsKept ==
  ASSUME TypeInv, ServeInv, HeaderInv, FrameInv, OnceInv, UniqueInv, ~Broken', [Next]_vars
  PROVE  Awaits \/ \E w \in Workers : Reply(w)
<1> SUFFICES ASSUME NEW h \in Handles, Sliced(h), ~ \E w \in Workers : Reply(w)
             PROVE  Outstanding(h)' = Outstanding(h)
  BY DEF Awaits
<1>1. ~Broken /\ OnePlace
  BY BrokenStays DEF UniqueInv
<1>2. request[h] \in Shapes /\ request'[h] = request[h] /\ Blocks(request[h])' = Blocks(request[h])
  BY FragmentStays
<1>3. ASSUME NEW k \in Blocks(request[h])
      PROVE  (Unsent(h, k) \/ Abroad(h, k))' <=> Unsent(h, k) \/ Abroad(h, k)
  <2>1. PICK x \in Headers : /\ x = HeaderOf(h, k) /\ HeaderOf(h, k)' = x
                             /\ x.owner = h /\ x.m_fragmentIdx = k
    BY FragmentStays
  <2>2. (Abroad(h, k) <=> Somewhere(x)) /\ (Abroad(h, k)' <=> Somewhere(x)')
    BY <2>1 DEF Abroad
  <2>3. ASSUME NEW w \in Workers, SendHeader(w)
        PROVE  (Unsent(h, k) \/ Abroad(h, k))' <=> Unsent(h, k) \/ Abroad(h, k)
    <3>1. ~Somewhere(Sending(w)) /\ Moved("none", "to", Sending(w))
      BY <1>1, <2>3, SentHeaderEnters
    <3>2. Sending(w).owner = held[w] /\ Sending(w).m_fragmentIdx = frag[w] /\
            Sending(w) = HeaderOf(held[w], frag[w])
      BY <2>3, CurrentFragment, MadeHeader DEF SendHeader, Sending, Sends
    <3>3. x = Sending(w) <=> h = held[w] /\ k = frag[w]
      BY <2>1, <3>2
    <3>4. \A stage \in Stages : In(stage, x)' <=> In(stage, x) \/ (stage = "to" /\ x = Sending(w))
      BY <3>1, MovedIs DEF Stages
    <3>5. Somewhere(x)' <=> Somewhere(x) \/ x = Sending(w)
      BY <3>4 DEF Somewhere, Stages
    <3>6. /\ Unsent(h, k)' <=> Unsent(h, k) /\ ~(h = held[w] /\ k = frag[w])
          /\ Unsent(held[w], frag[w])
      BY <1>2, <2>3, SentHeaderUnsent
    <3> QED
      BY <2>2, <3>3, <3>5, <3>6
  <2>4. CASE (Quiet \/ Carried) /\ ~ \E w \in Workers : SendHeader(w)
    <3>1. CASE Quiet
      <4>1. \A stage \in Stages, m \in Headers : In(stage, m)' <=> In(stage, m)
        BY <3>1, MovedIs DEF Quiet, Stages
      <4>2. Somewhere(x)' <=> Somewhere(x)
        BY <4>1 DEF Somewhere
      <4> QED
        BY <1>2, <2>2, <2>4, <4>2, UnsentKept
    <3>2. CASE Carried
      <4>1. PICK a \in Stages, b \in Stages, m \in Headers : In(a, m) /\ Moved(a, b, m)
        BY <3>2 DEF Carried
      <4>2. \A stage \in Stages :
              In(stage, x)' <=> (In(stage, x) /\ ~(stage = a /\ x = m)) \/ (stage = b /\ x = m)
        BY <4>1, MovedIs
      <4>3. Somewhere(x)' <=> Somewhere(x)
        BY <1>1, <4>1, <4>2 DEF Somewhere, OnePlace
      <4> QED
        BY <1>2, <2>2, <2>4, <4>3, UnsentKept
    <3> QED
      BY <2>4, <3>1, <3>2
  <2> QED
    BY <2>3, <2>4, HeadersTravel
<1> QED
  BY <1>2, <1>3 DEF Outstanding

(***************************************************************************)
(* A slicer stays in the map with its count; Reply alone changes that.     *)
(***************************************************************************)
Same(h) == (Kept(h) => Kept(h)') /\ m_countSlices'[h] = m_countSlices[h]

(***************************************************************************)
(* No step but Reply takes a slicer from the map or changes its count.     *)
(***************************************************************************)
LEMMA SlicerStays ==
  ASSUME TypeInv, ServeInv, UidInv, [Next]_vars, NEW h \in Handles, Sliced(h)
  PROVE  Same(h) \/ \E w \in Workers : Reply(w)
<1> DEFINE Goal == Same(h) \/ \E w \in Workers : Reply(w)
<1> SUFFICES Goal
  OBVIOUS
<1> USE DEF kernelVars, requestVars, reactorVars, workerVars, slicerVars, netVars, iotVars,
            iotUnchanged
<1>0. WorkerTypes /\ SlicerTypes /\ WorkersOK
  BY DEF TypeInv, ServeInv
<1> USE <1>0
<1> HIDE DEF Goal
<1>1. ASSUME NEW g \in Handles, NEW s \in Shapes, KernelSubmit(g, s) PROVE Goal
  BY <1>1 DEF KernelSubmit, Goal, Same, Kept
<1>2. CASE KernelShutdown
  BY <1>2 DEF KernelShutdown, Goal, Same, Kept
<1>3. CASE ManageRequests
  BY <1>3 DEF ManageRequests, Goal, Same, Kept
<1>4. CASE ReactorReturn
  BY <1>4 DEF ReactorReturn, Goal, Same, Kept
<1>5. CASE ReactorAtEof
  BY <1>5 DEF ReactorAtEof, Goal, Same, Kept
<1>6. ASSUME NEW i \in Iots, ManageReplies(i) PROVE Goal
  BY <1>6 DEF ManageReplies, Goal, Same, Kept
<1>7. ASSUME NEW i \in Iots, ManageRepliesData(i) PROVE Goal
  BY <1>7 DEF ManageRepliesData, Goal, Same, Kept
<1>8. ASSUME NEW i \in Iots, ManageRepliesEof(i) PROVE Goal
  BY <1>8 DEF ManageRepliesEof, Goal, Same, Kept
<1>9. ASSUME NEW w \in Workers, Pop(w) PROVE Goal
  <2>1. \A v \in Workers : pc[v] = "insert" => pc'[v] = "insert" /\ held'[v] = held[v]
    BY <1>9 DEF Pop, GoTo, NextFragment, WorkerTypes
  <2>2. UNCHANGED <<m_slicerMap, m_requestUid, m_countSlices>>
    BY <1>9 DEF Pop
  <2> QED
    BY <2>1, <2>2 DEF Goal, Same, Kept
<1>10. ASSUME NEW w \in Workers, Slice(w) PROVE Goal
  <2>1. \A v \in Workers : pc[v] = "insert" => pc'[v] = "insert" /\ held'[v] = held[v]
    BY <1>10 DEF Slice, GoTo, WorkerTypes
  <2>2. held[w] # h /\ UNCHANGED m_slicerMap
    BY <1>10 DEF Slice, WorkersOK
  <2>3. m_requestUid'[h] = m_requestUid[h]
    BY FragmentStays
  <2>4. m_countSlices'[h] = m_countSlices[h]
    BY <1>10, <2>2 DEF Slice, SlicerTypes
  <2> QED
    BY <2>1, <2>2, <2>3, <2>4 DEF Goal, Same, Kept
<1>11. ASSUME NEW w \in Workers, InsertSlicer(w) PROVE Goal
  <2>1. \A v \in Workers \ {w} : pc'[v] = pc[v] /\ held'[v] = held[v]
    BY <1>11 DEF InsertSlicer, GoTo, WorkerTypes
  <2>2. pc[w] = "insert" /\ UNCHANGED <<m_requestUid, m_countSlices>>
    BY <1>11 DEF InsertSlicer
  <2>3. held[w] \in Handles /\ Sliced(held[w]) /\ m_requestUid[held[w]] \in Uids /\
          m_requestUid[h] \in Uids
    BY <2>2 DEF WorkersOK, Serves, SlicerTypes, Sliced
  <2>4. \A u \in Uids : m_slicerMap'[u] = IF u = m_requestUid[held[w]] THEN held[w] ELSE m_slicerMap[u]
    BY <1>11, <2>3 DEF InsertSlicer, SlicerTypes
  <2>5. m_requestUid[h] = m_requestUid[held[w]] => h = held[w]
    BY <2>3 DEF UidInv
  <2>6. Kept(h) => Kept(h)'
    <3>1. CASE held[w] = h
      BY <2>2, <2>3, <2>4, <3>1 DEF Kept
    <3>2. CASE held[w] # h
      BY <2>1, <2>2, <2>3, <2>4, <2>5, <3>2 DEF Kept
    <3> QED
      BY <3>1, <3>2
  <2> QED
    BY <2>2, <2>6 DEF Goal, Same
<1>12. ASSUME NEW w \in Workers, SenderLock(w) PROVE Goal
  <2>1. \A v \in Workers : pc[v] = "insert" => pc'[v] = "insert" /\ held'[v] = held[v]
    BY <1>12 DEF SenderLock, GoTo, NextFragment, WorkerTypes
  <2>2. UNCHANGED <<m_slicerMap, m_requestUid, m_countSlices>>
    BY <1>12 DEF SenderLock
  <2> QED
    BY <2>1, <2>2 DEF Goal, Same, Kept
<1>13. ASSUME NEW w \in Workers, SendHeader(w) PROVE Goal
  <2>1. \A v \in Workers : pc[v] = "insert" => pc'[v] = "insert" /\ held'[v] = held[v]
    BY <1>13 DEF SendHeader, GoTo, NextFragment, WorkerTypes
  <2>2. UNCHANGED <<m_slicerMap, m_requestUid, m_countSlices>>
    BY <1>13 DEF SendHeader
  <2> QED
    BY <2>1, <2>2 DEF Goal, Same, Kept
<1>14. ASSUME NEW w \in Workers, SendData(w) PROVE Goal
  <2>1. \A v \in Workers : pc[v] = "insert" => pc'[v] = "insert" /\ held'[v] = held[v]
    BY <1>14 DEF SendData, GoTo, NextFragment, WorkerTypes
  <2>2. UNCHANGED <<m_slicerMap, m_requestUid, m_countSlices>>
    BY <1>14 DEF SendData
  <2> QED
    BY <2>1, <2>2 DEF Goal, Same, Kept
<1>15. ASSUME NEW w \in Workers, SendFails(w) PROVE Goal
  BY <1>15 DEF SendFails, Goal, Same, Kept
<1>16. ASSUME NEW w \in Workers, Reply(w) PROVE Goal
  BY <1>16 DEF Goal
<1>17. ASSUME NEW w \in Workers, Release(w) PROVE Goal
  <2>1. \A v \in Workers : pc[v] = "insert" => pc'[v] = "insert" /\ held'[v] = held[v]
    BY <1>17 DEF Release, GoTo, NextFragment, WorkerTypes
  <2>2. UNCHANGED <<m_slicerMap, m_requestUid, m_countSlices>>
    BY <1>17 DEF Release
  <2> QED
    BY <2>1, <2>2 DEF Goal, Same, Kept
<1>18. ASSUME NEW i \in Iots, IotReadHeader(i) PROVE Goal
  BY <1>18 DEF IotReadHeader, Goal, Same, Kept
<1>19. ASSUME NEW i \in Iots, IotWrite(i) PROVE Goal
  BY <1>19 DEF IotWrite, Goal, Same, Kept
<1>20. ASSUME NEW i \in Iots, IotSendHeader(i) PROVE Goal
  BY <1>20 DEF IotSendHeader, Goal, Same, Kept
<1>21. ASSUME NEW i \in Iots, IotSendData(i) PROVE Goal
  BY <1>21 DEF IotSendData, Goal, Same, Kept
<1>22. ASSUME NEW i \in Iots, IotFail(i) PROVE Goal
  BY <1>22 DEF IotFail, Goal, Same, Kept
<1>23. CASE UNCHANGED vars
  BY <1>23 DEF vars, Goal, Same, Kept
<1> QED
  BY <1>1, <1>2, <1>3, <1>4, <1>5, <1>6, <1>7, <1>8, <1>9, <1>10, <1>11, <1>12, <1>13,
     <1>14, <1>15, <1>16, <1>17, <1>18, <1>19, <1>20, <1>21, <1>22, <1>23
  DEF Next, Reactor, Worker, Iot, Stop

(***************************************************************************)
(* Splicer::Reply finds a slicer and, if it is not the last reply, leaves  *)
(* it in the map.                                                          *)
(***************************************************************************)
LEMMA ReplyFound ==
  ASSUME TypeInv, ServeInv, UidInv, HeaderInv, NEW w \in Workers, Reply(w),
         eofReads = 0, NEW x, x = task[w].header, m_slicerMap[x.m_requestUid] # Nobody
  PROVE  /\ IsHeader(x) /\ x.owner \in Handles /\ Sliced(x.owner)
         /\ \A h \in Handles \ {x.owner} : Same(h)
         /\ m_countSlices[x.owner] > 0 /\ m_countSlices'[x.owner] = m_countSlices[x.owner] - 1
         /\ m_countSlices[x.owner] # 1 => Kept(x.owner)'
<1> USE DEF kernelVars, requestVars, reactorVars, workerVars, slicerVars, netVars, iotVars
<1>1. WasSent(x) /\ pc[w] = "reply" /\ IsHeader(x)
  BY SentReply DEF Reply, WasSent
<1>2. PICK o \in Handles : o = x.owner
  BY <1>1 DEF IsHeader, Headers
<1>3. PICK u \in Uids : u = x.m_requestUid
  BY <1>1 DEF IsHeader, Headers
<1>4. Sliced(o) /\ u = m_requestUid[o] /\ request[o] # Unset
  BY <1>1, <1>2, <1>3 DEF IsHeader, HeaderOf, Header, ServeInv, BuffersOK, HasBuffer
<1>5. /\ m_slicerMap[u] = o /\ m_countSlices[o] > 0 /\ m_countSlices[o] \in Int
      /\ x.m_fragmentIdx \in Blocks(request[o])
  BY <1>1, <1>2, <1>3, <1>4, FoundSlicer DEF TypeInv, SlicerTypes
<1>6. /\ m_countSlices' = [m_countSlices EXCEPT ![o] = m_countSlices[o] - 1] /\
           UNCHANGED m_requestUid
      /\ m_slicerMap' = IF m_countSlices[o] = 1 THEN [m_slicerMap EXCEPT ![u] = Nobody] ELSE m_slicerMap
      /\ GoTo(w, "release") /\ held' = [held EXCEPT ![w] = o]
  <2>1. Nobody \notin Handles
    BY NamesAssumption
  <2>2. IsReplyReady(m_countSlices[o]) <=> m_countSlices[o] = 1
    BY <1>5 DEF IsReplyReady
  <2>3. Finds(w, u, {x.m_fragmentIdx}, o)
    <3>1. Strays(u, {x.m_fragmentIdx}) \/ \E h \in Handles : Finds(w, u, {x.m_fragmentIdx}, h)
      BY <1>3, SentReply
    <3> QED
      BY <1>2, <1>5, <2>1, <3>1 DEF Strays, Finds
  <2> QED
    BY <2>2, <2>3 DEF Finds, Reply
<1>7. \A v \in Workers : pc[v] = "insert" => pc'[v] = "insert" /\ held'[v] = held[v]
  BY <1>1, <1>6 DEF GoTo, TypeInv, WorkerTypes
<1>8. ASSUME NEW h \in Handles \ {o} PROVE Same(h)
  <2>1. m_requestUid[h] # u
    BY <1>4 DEF UidInv
  <2>2. m_slicerMap'[m_requestUid[h]] = h \/ m_slicerMap[m_requestUid[h]] # h
    BY <1>6, <2>1 DEF TypeInv, SlicerTypes
  <2>3. m_countSlices'[h] = m_countSlices[h]
    BY <1>6 DEF TypeInv, SlicerTypes
  <2> QED
    BY <1>6, <1>7, <2>2, <2>3 DEF Same, Kept
<1>9. m_countSlices'[o] = m_countSlices[o] - 1
  BY <1>6 DEF TypeInv, SlicerTypes
<1>10. m_countSlices[o] # 1 => Kept(o)'
  BY <1>4, <1>5, <1>6 DEF Kept
<1> QED
  BY <1>1, <1>2, <1>4, <1>5, <1>8, <1>9, <1>10

(***************************************************************************)
(* While the devices are up it finds one.                                  *)
(***************************************************************************)
LEMMA ReplyFinds ==
  ASSUME TypeInv, ServeInv, HeaderInv, SlicerInv, ~Broken, NEW w \in Workers, Reply(w),
         NEW x, x = task[w].header
  PROVE  /\ m_slicerMap[x.m_requestUid] # Nobody
         /\ x.m_fragmentIdx \in Outstanding(x.owner)
<1>1. WasSent(x) /\ pc[w] = "reply" /\ IsHeader(x)
  BY NoneMadeUp, SentReply DEF Reply, WasSent
<1>2. /\ x \in Headers /\ x.owner \in Handles /\ Sliced(x.owner) /\
           x.m_requestUid = m_requestUid[x.owner]
      /\ x = HeaderOf(x.owner, x.m_fragmentIdx) /\ x.m_fragmentIdx \in Nat /\
           x.m_fragmentIdx < NumOf(x.owner)
  BY <1>1 DEF IsHeader, Headers, HeaderOf, Header
<1>3. request[x.owner] \in Shapes
  BY <1>2 DEF ServeInv, BuffersOK, HasBuffer, TypeInv, KernelTypes
<1>4. x.m_fragmentIdx \in Blocks(request[x.owner])
  BY <1>2, <1>3, ShapeFacts DEF NumOf
<1>5. Somewhere(x)
  BY <1>1 DEF Somewhere, Stages, In, AtWorker
<1>6. x.m_fragmentIdx \in Outstanding(x.owner)
  BY <1>2, <1>4, <1>5 DEF Outstanding, Abroad
<1>7. Kept(x.owner)
  BY <1>2, <1>6 DEF SlicerInv
<1>8. \A v \in Workers : ~(pc[v] = "insert" /\ held[v] = x.owner)
  BY <1>1, <1>2 DEF WasSent, Serves, Sends, NextFrag
<1> QED
  BY <1>2, <1>6, <1>7, <1>8, NamesAssumption DEF Kept

\* A slicer waits for finitely many fragments.
LEMMA FiniteOutstanding ==
  ASSUME TypeInv, ServeInv, NEW h \in Handles, Sliced(h)
  PROVE  IsFiniteSet(Outstanding(h)) /\ Cardinality(Outstanding(h)) \in Nat
<1>1. request[h] \in Shapes
  BY DEF ServeInv, BuffersOK, HasBuffer, TypeInv, KernelTypes
<1>2. IsFiniteSet(Blocks(request[h]))
  <2>1. NumOfFragments(request[h].len) - 1 \in Int /\
          Blocks(request[h]) = 0 .. (NumOfFragments(request[h].len) - 1)
    BY <1>1, ShapeFacts
  <2> QED
    BY <2>1, FS_Interval
<1>3. Outstanding(h) \in SUBSET Blocks(request[h])
  BY DEF Outstanding
<1> QED
  BY <1>2, <1>3, FS_Subset, FS_CardinalityType

(***************************************************************************)
(* Every step keeps the counts right and the slicers in the map.           *)
(***************************************************************************)
LEMMA ReplyCounts ==
  ASSUME TypeInv, ServeInv, UidInv, HeaderInv, UniqueInv, SlicerInv, ~Broken, [Next]_vars,
         NEW w \in Workers, Reply(w), NEW h \in Handles, Sliced(h)
  PROVE  /\ m_countSlices'[h] = Cardinality(Outstanding(h)')
         /\ Outstanding(h)' = {} \/ Kept(h)'
         /\ Outstanding(h)' = IF h = task[w].header.owner
              THEN Outstanding(h) \ {task[w].header.m_fragmentIdx} ELSE Outstanding(h)
<1>1. PICK x : x = task[w].header
  OBVIOUS
<1>2. /\ m_slicerMap[x.m_requestUid] # Nobody /\ x.m_fragmentIdx \in Outstanding(x.owner)
      /\ eofReads = 0
  BY <1>1, ReplyFinds, NoneMadeUp
<1>3. /\ IsHeader(x) /\ x.owner \in Handles /\ Sliced(x.owner)
      /\ \A g \in Handles \ {x.owner} : Same(g)
      /\ m_countSlices[x.owner] > 0 /\ m_countSlices'[x.owner] = m_countSlices[x.owner] - 1
      /\ m_countSlices[x.owner] # 1 => Kept(x.owner)'
  BY <1>1, <1>2, ReplyFound
<1>4. WorkersOnce /\ OnePlace
  BY DEF UniqueInv
<1>5. Moved("worker", "none", x)
  <2>1. WasSent(x) /\ x.m_fragmentIdx \in Blocks(request[x.owner])
    BY <1>1, <1>2, SentReply DEF Outstanding
  <2>2. ~Strays(x.m_requestUid, {x.m_fragmentIdx})
    BY <1>2, <2>1, FoundSlicer DEF Strays
  <2> QED
    BY <1>1, <1>4, <2>2, RepliedHeaderLeaves
<1>6. /\ request[h] \in Shapes /\ Blocks(request[h])' = Blocks(request[h])
      /\ \A k \in Blocks(request[h]) : HeaderOf(h, k)' = HeaderOf(h, k) /\
           HeaderOf(h, k) \in Headers
           /\ HeaderOf(h, k).owner = h /\ HeaderOf(h, k).m_fragmentIdx = k
  BY FragmentStays
<1>7. WasSent(x) /\ pc[w] = "reply" /\ x \in Headers /\ x = HeaderOf(x.owner, x.m_fragmentIdx)
  BY <1>1, <1>2, <1>3, SentReply DEF Reply, IsHeader
<1>8. In("worker", x)
  BY <1>1, <1>7 DEF In, AtWorker
<1>9. ASSUME NEW k \in Blocks(request[h])
      PROVE  (Unsent(h, k) \/ Abroad(h, k))' <=> (Unsent(h, k) \/ Abroad(h, k)) /\
               ~(h = x.owner /\ k = x.m_fragmentIdx)
  <2>1. PICK y \in Headers : y = HeaderOf(h, k) /\ HeaderOf(h, k)' = y /\ y.owner = h /\
          y.m_fragmentIdx = k
    BY <1>6
  <2>2. (Abroad(h, k) <=> Somewhere(y)) /\ (Abroad(h, k)' <=> Somewhere(y)')
    BY <2>1 DEF Abroad
  <2>3. \A stage \in Stages : In(stage, y)' <=> In(stage, y) /\ ~(stage = "worker" /\ y = x)
    BY <1>5, MovedIs DEF Stages
  <2>4. \A stage \in Stages : In(stage, x) => stage = "worker"
    BY <1>4, <1>7, <1>8 DEF OnePlace, Stages
  <2>5. Somewhere(y)' <=> Somewhere(y) /\ y # x
    BY <2>3, <2>4 DEF Somewhere
  <2>6. y = x <=> h = x.owner /\ k = x.m_fragmentIdx
    BY <1>7, <2>1
  <2>7. Unsent(h, k)' <=> Unsent(h, k)
    <3>1. ~ \E v \in Workers : SendHeader(v)
      <4>1. ASSUME NEW v \in Workers, SendHeader(v) PROVE FALSE
        <5>1. task' = task /\ pc[v] = "sendHeader" /\ pc'[v] # "sendHeader"
          BY <4>1 DEF SendHeader, NextFragment, GoTo, TypeInv, WorkerTypes
        <5>2. pc'[v] = pc[v]
          BY <1>7, <5>1 DEF Reply, GoTo, TypeInv, WorkerTypes
        <5> QED
          BY <5>1, <5>2
      <4> QED
        BY <4>1
    <3> QED
      BY <1>6, <3>1, UnsentKept
  <2>8. h = x.owner /\ k = x.m_fragmentIdx => ~Unsent(h, k)
    <3>1. ASSUME NEW v \in Workers, Misses(v, h, k), h = x.owner, k = x.m_fragmentIdx PROVE FALSE
      <4>1. Serves(v) /\ held[v] = h /\ k >= NextFrag(v) /\ k < NextFrag(v)
        BY <1>7, <3>1 DEF Misses, WasSent
      <4>2. k \in Nat
        BY FragmentStays
      <4>3. NextFrag(v) \in Nat
        BY DEF NextFrag, TypeInv, WorkerTypes
      <4> QED
        BY <4>1, <4>2, <4>3
    <3> QED
      BY <3>1 DEF Unsent
  <2> QED
    BY <2>2, <2>5, <2>6, <2>7, <2>8
<1>10. Outstanding(h)' = IF h = x.owner THEN Outstanding(h) \ {x.m_fragmentIdx} ELSE Outstanding(h)
  BY <1>6, <1>9 DEF Outstanding
<1>11. /\ m_countSlices[h] = Cardinality(Outstanding(h)) /\ IsFiniteSet(Outstanding(h))
       /\ Cardinality(Outstanding(h)) \in Nat /\ (Outstanding(h) = {} \/ Kept(h))
  BY FiniteOutstanding DEF SlicerInv
<1>12. CASE h # x.owner
  BY <1>3, <1>10, <1>11, <1>12, <1>1 DEF Same
<1>13. CASE h = x.owner
  <2>1. /\ IsFiniteSet(Outstanding(h) \ {x.m_fragmentIdx})
        /\ Cardinality(Outstanding(h) \ {x.m_fragmentIdx}) = Cardinality(Outstanding(h)) - 1
    BY <1>2, <1>11, <1>13, FS_RemoveElement
  <2>2. m_countSlices[h] = 1 => Outstanding(h) \ {x.m_fragmentIdx} = {}
    <3>1. m_countSlices[h] = 1 => Cardinality(Outstanding(h) \ {x.m_fragmentIdx}) = 0
      BY <1>11, <2>1
    <3> QED
      BY <2>1, <3>1, FS_EmptySet
  <2> QED
    BY <1>1, <1>3, <1>10, <1>11, <1>13, <2>1, <2>2
<1> QED
  BY <1>12, <1>13

\* Only Slice gives a uid.
LEMMA FreshSlicer ==
  ASSUME TypeInv, ServeInv, [Next]_vars, NEW h \in Handles, ~Sliced(h), Sliced(h)'
  PROVE  \E w \in Workers : Slice(w) /\ held[w] = h
<1> DEFINE Goal == \E w \in Workers : Slice(w) /\ held[w] = h
<1> SUFFICES Goal
  OBVIOUS
<1> USE DEF kernelVars, requestVars, reactorVars, workerVars, slicerVars, netVars, iotVars,
            iotUnchanged
<1> HIDE DEF Goal
<1>1. ASSUME NEW g \in Handles, NEW s \in Shapes, KernelSubmit(g, s) PROVE Goal
  BY <1>1 DEF KernelSubmit, Sliced
<1>2. CASE KernelShutdown
  BY <1>2 DEF KernelShutdown, Sliced
<1>3. CASE ManageRequests
  BY <1>3 DEF ManageRequests, Sliced
<1>4. CASE ReactorReturn
  BY <1>4 DEF ReactorReturn, Sliced
<1>5. CASE ReactorAtEof
  BY <1>5 DEF ReactorAtEof, Sliced
<1>6. ASSUME NEW i \in Iots, ManageReplies(i) PROVE Goal
  BY <1>6 DEF ManageReplies, Sliced
<1>7. ASSUME NEW i \in Iots, ManageRepliesData(i) PROVE Goal
  BY <1>7 DEF ManageRepliesData, Sliced
<1>8. ASSUME NEW i \in Iots, ManageRepliesEof(i) PROVE Goal
  BY <1>8 DEF ManageRepliesEof, Sliced
<1>9. ASSUME NEW w \in Workers, Pop(w) PROVE Goal
  BY <1>9 DEF Pop, Sliced
<1>10. ASSUME NEW w \in Workers, Slice(w) PROVE Goal
  <2> DEFINE u == request_counter % UidSpace
  <2>1. m_requestUid' = [m_requestUid EXCEPT ![held[w]] = u]
    BY <1>10 DEF Slice
  <2> HIDE DEF u
  <2>2. held[w] = h
    BY <2>1 DEF Sliced, TypeInv, SlicerTypes
  <2> QED
    BY <1>10, <2>2 DEF Goal
<1>11. ASSUME NEW w \in Workers, InsertSlicer(w) PROVE Goal
  BY <1>11 DEF InsertSlicer, Sliced
<1>12. ASSUME NEW w \in Workers, SenderLock(w) PROVE Goal
  BY <1>12 DEF SenderLock, Sliced
<1>13. ASSUME NEW w \in Workers, SendHeader(w) PROVE Goal
  BY <1>13 DEF SendHeader, Sliced
<1>14. ASSUME NEW w \in Workers, SendData(w) PROVE Goal
  BY <1>14 DEF SendData, Sliced
<1>15. ASSUME NEW w \in Workers, SendFails(w) PROVE Goal
  BY <1>15 DEF SendFails, Sliced
<1>16. ASSUME NEW w \in Workers, Reply(w) PROVE Goal
  BY <1>16 DEF Reply, Sliced
<1>17. ASSUME NEW w \in Workers, Release(w) PROVE Goal
  BY <1>17 DEF Release, Sliced
<1>18. ASSUME NEW i \in Iots, IotReadHeader(i) PROVE Goal
  BY <1>18 DEF IotReadHeader, Sliced
<1>19. ASSUME NEW i \in Iots, IotWrite(i) PROVE Goal
  BY <1>19 DEF IotWrite, Sliced
<1>20. ASSUME NEW i \in Iots, IotSendHeader(i) PROVE Goal
  BY <1>20 DEF IotSendHeader, Sliced
<1>21. ASSUME NEW i \in Iots, IotSendData(i) PROVE Goal
  BY <1>21 DEF IotSendData, Sliced
<1>22. ASSUME NEW i \in Iots, IotFail(i) PROVE Goal
  BY <1>22 DEF IotFail, Sliced
<1>23. CASE UNCHANGED vars
  BY <1>23 DEF vars, Sliced
<1> QED
  BY <1>1, <1>2, <1>3, <1>4, <1>5, <1>6, <1>7, <1>8, <1>9, <1>10, <1>11, <1>12, <1>13,
     <1>14, <1>15, <1>16, <1>17, <1>18, <1>19, <1>20, <1>21, <1>22, <1>23
  DEF Next, Reactor, Worker, Iot, Stop

\* Slice counts every block of the request as one to wait for.
LEMMA SliceCounts ==
  ASSUME TypeInv, ServeInv, NEW w \in Workers, Slice(w), NEW h \in Handles, held[w] = h
  PROVE  /\ m_countSlices'[h] = Cardinality(Outstanding(h)') /\ Kept(h)'
         /\ Outstanding(h)' = Blocks(request[h])'
<1> USE DEF kernelVars
<1>1. pc[w] = "slice" /\ request' = request /\ request[h] \in Shapes
  BY DEF Slice, ServeInv, WorkersOK, Serves, HasBuffer, TypeInv, KernelTypes
<1>2. pc'[w] = "insert" /\ held'[w] = h
  BY DEF Slice, GoTo, TypeInv, WorkerTypes
<1>3. m_countSlices'[h] = NumOfFragments(request[h].len)
  BY DEF Slice, TypeInv, SlicerTypes
<1>4. NumOfFragments(request[h].len) \in Nat /\
        Blocks(request[h]) = 0 .. (NumOfFragments(request[h].len) - 1)
  BY <1>1, ShapeFacts
<1>5. \A k \in Blocks(request[h]) : Misses(w, h, k)'
  BY <1>2, <1>4 DEF Misses, Serves, Sends, NextFrag
<1>6. Outstanding(h)' = Blocks(request[h])'
  BY <1>1, <1>5 DEF Outstanding, Unsent
<1>7. Cardinality(Blocks(request[h])) = NumOfFragments(request[h].len)
  <2> DEFINE n == NumOfFragments(request[h].len)
  <2>1. n \in Nat /\ n - 1 \in Int /\ Blocks(request[h]) = 0 .. (n - 1)
    BY <1>4
  <2> HIDE DEF n
  <2>2. \A b \in Int : Cardinality(0 .. b) = IF 0 > b THEN 0 ELSE b - 0 + 1
    BY FS_Interval
  <2>3. Cardinality(0 .. (n - 1)) = n
    BY <2>1, <2>2
  <2> QED
    BY <2>1, <2>3 DEF n
<1>8. Blocks(request[h])' = Blocks(request[h])
  BY <1>1
<1> QED
  BY <1>2, <1>3, <1>6, <1>7, <1>8 DEF Kept

\* Every step keeps the counts of the slicers right and the map complete.
LEMMA SlicersKept ==
  ASSUME TypeInv, ServeInv, UidInv, HeaderInv, FrameInv, OnceInv, UniqueInv, SlicerInv, [Next]_vars
  PROVE  SlicerInv'
<1> SUFFICES ASSUME ~Broken', NEW h \in Handles, Sliced(h)'
             PROVE  /\ m_countSlices'[h] = Cardinality(Outstanding(h)')
                    /\ Outstanding(h)' = {} \/ Kept(h)'
  BY DEF SlicerInv
<1>1. ~Broken
  BY BrokenStays
<1>2. CASE ~Sliced(h)
  BY <1>2, FreshSlicer, SliceCounts
<1>3. CASE Sliced(h)
  <2>1. CASE \E w \in Workers : Reply(w)
    BY <1>1, <1>3, <2>1, ReplyCounts
  <2>2. CASE ~ \E w \in Workers : Reply(w)
    <3>1. Outstanding(h)' = Outstanding(h)
      BY <1>3, <2>2, AwaitsKept DEF Awaits
    <3>2. Same(h)
      BY <1>3, <2>2, SlicerStays
    <3> QED
      BY <1>1, <1>3, <3>1, <3>2 DEF Same, SlicerInv
  <2> QED
    BY <2>1, <2>2
<1> QED
  BY <1>2, <1>3

(***************************************************************************)
(* While the devices are up no reply ends the daemon.                      *)
(***************************************************************************)
LEMMA NoNullKept ==
  ASSUME TypeInv, ServeInv, HeaderInv, SlicerInv, NoNullSlicer, [Next]_vars
  PROVE  NoNullSlicer'
<1> SUFFICES ASSUME ~Broken' PROVE status' # "null slicer"
  BY DEF NoNullSlicer
<1>0. ~Broken /\ status # "null slicer"
  BY BrokenStays DEF NoNullSlicer
<1> DEFINE Goal == status' # "null slicer"
<1> SUFFICES Goal
  OBVIOUS
<1> USE DEF kernelVars, requestVars, reactorVars, workerVars, slicerVars, netVars, iotVars,
            iotUnchanged
<1> HIDE DEF Goal
<1>1. ASSUME NEW g \in Handles, NEW s \in Shapes, KernelSubmit(g, s) PROVE Goal
  BY <1>1, <1>0 DEF KernelSubmit, Goal
<1>2. CASE KernelShutdown
  BY <1>2, <1>0 DEF KernelShutdown, Goal
<1>3. CASE ManageRequests
  BY <1>3, <1>0 DEF ManageRequests, Goal
<1>4. CASE ReactorReturn
  BY <1>4, DropStatus, <1>0 DEF ReactorReturn, Goal
<1>5. CASE ReactorAtEof
  BY <1>5, <1>0 DEF ReactorAtEof, Goal
<1>6. ASSUME NEW i \in Iots, ManageReplies(i) PROVE Goal
  BY <1>6, <1>0 DEF ManageReplies, Goal
<1>7. ASSUME NEW i \in Iots, ManageRepliesData(i) PROVE Goal
  BY <1>7, <1>0 DEF ManageRepliesData, Goal
<1>8. ASSUME NEW i \in Iots, ManageRepliesEof(i) PROVE Goal
  BY <1>8, <1>0 DEF ManageRepliesEof, Goal
<1>9. ASSUME NEW w \in Workers, Pop(w) PROVE Goal
  BY <1>9, <1>0 DEF Pop, Goal
<1>10. ASSUME NEW w \in Workers, Slice(w) PROVE Goal
  BY <1>10, <1>0 DEF Slice, Goal
<1>11. ASSUME NEW w \in Workers, InsertSlicer(w) PROVE Goal
  BY <1>11, DropStatus, <1>0 DEF InsertSlicer, Goal
<1>12. ASSUME NEW w \in Workers, SenderLock(w) PROVE Goal
  BY <1>12, <1>0 DEF SenderLock, Goal
<1>13. ASSUME NEW w \in Workers, SendHeader(w) PROVE Goal
  BY <1>13, <1>0 DEF SendHeader, Goal
<1>14. ASSUME NEW w \in Workers, SendData(w) PROVE Goal
  BY <1>14, <1>0 DEF SendData, Goal
<1>15. ASSUME NEW w \in Workers, SendFails(w) PROVE Goal
  BY <1>15, <1>0 DEF SendFails, Goal
<1>16. ASSUME NEW w \in Workers, Reply(w) PROVE Goal
  <2>1. PICK x : x = task[w].header
    OBVIOUS
  <2>2. m_slicerMap[x.m_requestUid] # Nobody
    BY <1>16, <1>0, <2>1, ReplyFinds
  <2>3. \/ Strays(x.m_requestUid, {x.m_fragmentIdx})
        \/ \E h \in Handles : Finds(w, x.m_requestUid, {x.m_fragmentIdx}, h)
    BY <1>16, <1>0, <2>1, NoneMadeUp, SentReply
  <2> QED
    BY <1>0, <2>2, <2>3 DEF Strays, Finds, Goal
<1>17. ASSUME NEW w \in Workers, Release(w) PROVE Goal
  BY <1>17, DropStatus, <1>0 DEF Release, Goal
<1>18. ASSUME NEW i \in Iots, IotReadHeader(i) PROVE Goal
  BY <1>18, <1>0 DEF IotReadHeader, Goal
<1>19. ASSUME NEW i \in Iots, IotWrite(i) PROVE Goal
  BY <1>19, <1>0 DEF IotWrite, Goal
<1>20. ASSUME NEW i \in Iots, IotSendHeader(i) PROVE Goal
  BY <1>20, <1>0 DEF IotSendHeader, Goal
<1>21. ASSUME NEW i \in Iots, IotSendData(i) PROVE Goal
  BY <1>21, <1>0 DEF IotSendData, Goal
<1>22. ASSUME NEW i \in Iots, IotFail(i) PROVE Goal
  BY <1>22, <1>0 DEF IotFail, Goal
<1>23. CASE UNCHANGED vars
  BY <1>23, <1>0 DEF vars, Goal
<1> QED
  BY <1>1, <1>2, <1>3, <1>4, <1>5, <1>6, <1>7, <1>8, <1>9, <1>10, <1>11, <1>12, <1>13,
     <1>14, <1>15, <1>16, <1>17, <1>18, <1>19, <1>20, <1>21, <1>22, <1>23
  DEF Next, Reactor, Worker, Iot, Stop

-----------------------------------------------------------------------------
(***************************************************************************)
(* A fragment takes effect once: after its header was sent, and no header  *)
(* of it waits to be served any more.                                      *)
(***************************************************************************)
Took(m)   == m.m_fragmentIdx \in DOMAIN effect[m.owner]
AtWork(m) == \E i \in Iots : iot[i].at \in {"read", "write", "sendData"} /\ iot[i].header = m
Waits(m)  == InTo(m) \/ AtWork(m)

EffectTypes ==
  /\ effect = [h \in Handles |-> effect[h]]
  /\ \A h \in Handles : effect[h] = [k \in DOMAIN effect[h] |-> effect[h][k]]
EffectSent ==
  \A h \in Handles : \A k \in DOMAIN effect[h] :
    \E m \in Headers : m.owner = h /\ m.m_fragmentIdx = k /\ WasSent(m)
Untaken == \A m \in Headers : Waits(m) => ~Took(m)

EffectInv == EffectTypes /\ EffectSent /\ Untaken

(***************************************************************************)
(* What Record does to the history.                                        *)
(***************************************************************************)
LEMMA Recorded ==
  ASSUME EffectTypes, NEW x \in Headers, NEW v, Record(x, v)
  PROVE  /\ EffectTypes'
         /\ effect'[x.owner] = [j \in DOMAIN effect[x.owner] \cup {x.m_fragmentIdx} |->
              IF j = x.m_fragmentIdx THEN v ELSE effect[x.owner][j]]
         /\ \A h \in Handles : h # x.owner => effect'[h] = effect[h]
         /\ Took(x)' /\ effect'[x.owner][x.m_fragmentIdx] = v
<1>1. x.owner \in Handles
  BY DEF Headers
<1>2. /\ effect'[x.owner] = [j \in DOMAIN effect[x.owner] \cup {x.m_fragmentIdx} |->
           IF j = x.m_fragmentIdx THEN v ELSE effect[x.owner][j]]
      /\ \A h \in Handles : h # x.owner => effect'[h] = effect[h]
  BY <1>1 DEF Record, EffectTypes
<1>3. effect' = [h \in Handles |-> effect'[h]]
  BY DEF Record, EffectTypes
<1>4. ASSUME NEW h \in Handles
      PROVE  effect'[h] = [k \in DOMAIN effect'[h] |-> effect'[h][k]]
  <2>1. CASE h = x.owner
    BY <1>2, <2>1
  <2>2. CASE h # x.owner
    BY <1>2, <2>2 DEF EffectTypes
  <2> QED
    BY <2>1, <2>2
<1>5. Took(x)' /\ effect'[x.owner][x.m_fragmentIdx] = v
  BY <1>2 DEF Took
<1> QED
  BY <1>2, <1>3, <1>4, <1>5 DEF EffectTypes

(***************************************************************************)
(* The fragment with header x takes effect, and waits no longer.           *)
(***************************************************************************)
Idles == effect' = effect /\ \A m \in Headers : Waits(m)' => Waits(m)
Performs(x, v) ==
  /\ Record(x, v) /\ WasSent(x) /\ Waits(x) /\ ~Waits(x)'
  /\ \A m \in Headers : Waits(m)' => Waits(m)

(***************************************************************************)
(* A step sends a header, lets the fragment of one that waits take effect, *)
(* or does neither.                                                        *)
(***************************************************************************)
LEMMA WorkGoesOn ==
  ASSUME TypeInv, ServeInv, HeaderInv, FrameInv, OnceInv, [Next]_vars
  PROVE  Idles \/ (\E x \in Headers : \E v : Performs(x, v)) \/ (\E w \in Workers : SendHeader(w))
<1> DEFINE Goal == Idles \/ (\E x \in Headers : \E v : Performs(x, v)) \/
      (\E w \in Workers : SendHeader(w))
<1> SUFFICES Goal
  OBVIOUS
<1> USE DEF kernelVars, requestVars, reactorVars, workerVars, slicerVars, netVars, iotVars,
            iotUnchanged
<1>0. NetTypes /\ DeviceTypes /\ RequestHeaders /\ DeviceHeaders
  BY DEF TypeInv, HeaderInv
<1> USE <1>0
<1>1. ASSUME NEW g \in Handles, NEW s \in Shapes, KernelSubmit(g, s) PROVE Goal
  BY <1>1 DEF KernelSubmit, Idles, Waits, InTo, Has, AtWork
<1>2. CASE KernelShutdown
  BY <1>2 DEF KernelShutdown, Idles, Waits, InTo, Has, AtWork
<1>3. CASE ManageRequests
  BY <1>3 DEF ManageRequests, Idles, Waits, InTo, Has, AtWork
<1>4. CASE ReactorReturn
  BY <1>4 DEF ReactorReturn, Idles, Waits, InTo, Has, AtWork
<1>5. CASE ReactorAtEof
  BY <1>5 DEF ReactorAtEof, Idles, Waits, InTo, Has, AtWork
<1>6. ASSUME NEW i \in Iots, ManageReplies(i) PROVE Goal
  BY <1>6 DEF ManageReplies, Idles, Waits, InTo, Has, AtWork
<1>7. ASSUME NEW i \in Iots, ManageRepliesData(i) PROVE Goal
  BY <1>7 DEF ManageRepliesData, Idles, Waits, InTo, Has, AtWork
<1>8. ASSUME NEW i \in Iots, ManageRepliesEof(i) PROVE Goal
  BY <1>8 DEF ManageRepliesEof, Idles, Waits, InTo, Has, AtWork
<1>9. ASSUME NEW w \in Workers, Pop(w) PROVE Goal
  BY <1>9 DEF Pop, Idles, Waits, InTo, Has, AtWork
<1>10. ASSUME NEW w \in Workers, Slice(w) PROVE Goal
  BY <1>10 DEF Slice, Idles, Waits, InTo, Has, AtWork
<1>11. ASSUME NEW w \in Workers, InsertSlicer(w) PROVE Goal
  BY <1>11 DEF InsertSlicer, Idles, Waits, InTo, Has, AtWork
<1>12. ASSUME NEW w \in Workers, SenderLock(w) PROVE Goal
  BY <1>12 DEF SenderLock, Idles, Waits, InTo, Has, AtWork
<1>13. ASSUME NEW w \in Workers, SendHeader(w) PROVE Goal
  BY <1>13
<1>14. ASSUME NEW w \in Workers, SendData(w) PROVE Goal
  <2>1. Current(w).iot \in Iots /\ Data(Current(w).bytes) \in Messages /\
          Data(Current(w).bytes) \notin Headers
    BY <1>14, CurrentFragment DEF SendData, Sends, Data, DataMessages, Messages, Headers
  <2>2. PutTo(toIot, Current(w).iot, Data(Current(w).bytes), toIot')
    BY <1>14, <2>1 DEF SendData, SendTo, PutTo, NetTypes
  <2>3. ASSUME NEW m \in Headers, InTo(m)' PROVE InTo(m)
    <3>0. PICK d \in Iots : \E j \in 1 .. Len(toIot'[d]) : toIot'[d][j] = m
      BY <2>3 DEF InTo, Has
    <3>1. PICK j \in 1 .. Len(toIot'[d]) : toIot'[d][j] = m
      BY <3>0
    <3>2. \E k \in 1 .. Len(toIot[d]) : toIot'[d][j] = toIot[d][k]
      BY <2>1, <2>2, <3>1, AllFromAppend
    <3> QED
      BY <3>1, <3>2 DEF InTo, Has
  <2>4. effect' = effect /\ \A m \in Headers : AtWork(m)' => AtWork(m)
    BY <1>14 DEF SendData, AtWork
  <2> QED
    BY <2>3, <2>4 DEF Idles, Waits
<1>15. ASSUME NEW w \in Workers, SendFails(w) PROVE Goal
  BY <1>15 DEF SendFails, Idles, Waits, InTo, Has, AtWork
<1>16. ASSUME NEW w \in Workers, Reply(w) PROVE Goal
  BY <1>16 DEF Reply, Idles, Waits, InTo, Has, AtWork
<1>17. ASSUME NEW w \in Workers, Release(w) PROVE Goal
  BY <1>17 DEF Release, Idles, Waits, InTo, Has, AtWork
<1>18. ASSUME NEW i \in Iots, IotReadHeader(i) PROVE Goal
  <2>1. Head(toIot[i]) \in Headers
    BY <1>18, FrontOfRequests DEF IotReadHeader
  <2>2. TookFrom(toIot, i, toIot')
    BY <1>18 DEF IotReadHeader, TookFrom, NetTypes
  <2>3. \A m : InTo(m)' => InTo(m)
    <3>1. \A m : m # Head(toIot[i]) => (Has(toIot', m) <=> Has(toIot, m))
      BY <2>2, TakenIsGone
    <3>2. Has(toIot, Head(toIot[i]))
      BY <2>2, TakenIsGone
    <3> QED
      BY <3>1, <3>2 DEF InTo
  <2>4. iot'[i].header = Head(toIot[i]) /\ \A d \in Iots : d # i => iot'[d] = iot[d]
    BY <1>18 DEF IotReadHeader, IotAt, DeviceTypes
  <2>5. InTo(Head(toIot[i]))
    BY <2>2, TakenIsGone DEF InTo
  <2>6. \A m \in Headers : AtWork(m)' => AtWork(m) \/ InTo(m)
    BY <2>4, <2>5 DEF AtWork
  <2> QED
    BY <1>18, <2>3, <2>6 DEF IotReadHeader, Idles, Waits
<1>19. ASSUME NEW i \in Iots, IotWrite(i) PROVE Goal
  <2>2. TookFrom(toIot, i, toIot')
    BY <1>19 DEF IotWrite, TookFrom, NetTypes
  <2>3. \A m : InTo(m)' => InTo(m)
    <3>1. \A m : m # Head(toIot[i]) => (Has(toIot', m) <=> Has(toIot, m))
      BY <2>2, TakenIsGone
    <3>2. Has(toIot, Head(toIot[i]))
      BY <2>2, TakenIsGone
    <3> QED
      BY <3>1, <3>2 DEF InTo
  <2>4. PICK x \in Headers : x = iot[i].header
    BY <1>19 DEF IotWrite, DeviceHeaders, WasSent, IsSent, IsHeader
  <2>5. WasSent(x) /\ HomeOf(x) = i
    BY <1>19, <2>4, DataWasSent DEF IotWrite, DeviceHeaders
  <2>6. ~InTo(x)
    <3> SUFFICES ASSUME InTo(x) PROVE FALSE
      OBVIOUS
    <3>0. PICK d \in Iots : \E j \in 1 .. Len(toIot[d]) : toIot[d][j] = x
      BY DEF InTo, Has
    <3>1. PICK j \in 1 .. Len(toIot[d]) : toIot[d][j] = x
      BY <3>0
    <3>2. d = i
      BY <2>5, <3>1 DEF RequestHeaders, Headers
    <3> QED
      BY <1>19, <2>4, <3>1, <3>2 DEF IotWrite, OnceInv
  <2>7. iot'[i].at \in {"ack", "header"} /\ \A d \in Iots : d # i => iot'[d] = iot[d]
    BY <1>19 DEF IotWrite, IotAt, IotIdle, DeviceTypes
  <2>8. \A m \in Headers : AtWork(m)' => AtWork(m)
    BY <2>7 DEF AtWork
  <2>9. ~AtWork(x)'
    BY <2>5, <2>7 DEF AtWork, DeviceHeaders
  <2>10. Record(x, Head(toIot[i]).bytes) /\ Waits(x)
    BY <1>19, <2>4 DEF IotWrite, Waits, AtWork
  <2> QED
    BY <2>3, <2>4, <2>5, <2>6, <2>8, <2>9, <2>10 DEF Performs, Waits
<1>20. ASSUME NEW i \in Iots, IotSendHeader(i) PROVE Goal
  <2>1. \A d \in Iots : iot'[d].at \in {"read", "write", "sendData"} =>
        iot[d].at \in {"read", "write", "sendData"} /\ iot'[d].header = iot[d].header
    BY <1>20 DEF IotSendHeader, IotAt, IotIdle, DeviceTypes
  <2>2. \A m \in Headers : AtWork(m)' => AtWork(m)
    BY <2>1 DEF AtWork
  <2> QED
    BY <1>20, <2>2 DEF IotSendHeader, Idles, Waits, InTo
<1>21. ASSUME NEW i \in Iots, IotSendData(i) PROVE Goal
  <2>1. \A m : InTo(m)' <=> InTo(m)
    BY <1>21 DEF IotSendData, InTo, Has
  <2>2. PICK x \in Headers : x = iot[i].header
    BY <1>21 DEF IotSendData, DeviceHeaders, WasSent, IsSent, IsHeader
  <2>3. WasSent(x) /\ HomeOf(x) = i
    BY <1>21, <2>2, DataWasSent DEF IotSendData, DeviceHeaders
  <2>4. ~InTo(x)
    <3> SUFFICES ASSUME InTo(x) PROVE FALSE
      OBVIOUS
    <3>0. PICK d \in Iots : \E j \in 1 .. Len(toIot[d]) : toIot[d][j] = x
      BY DEF InTo, Has
    <3>1. PICK j \in 1 .. Len(toIot[d]) : toIot[d][j] = x
      BY <3>0
    <3>2. d = i
      BY <2>3, <3>1 DEF RequestHeaders, Headers
    <3> QED
      BY <1>21, <2>2, <3>1, <3>2 DEF IotSendData, OnceInv
  <2>5. iot'[i].at \in {"ack", "header"} /\ \A d \in Iots : d # i => iot'[d] = iot[d]
    BY <1>21 DEF IotSendData, IotAt, IotIdle, DeviceTypes
  <2>6. \A m \in Headers : AtWork(m)' => AtWork(m)
    BY <2>5 DEF AtWork
  <2>7. ~AtWork(x)'
    BY <2>3, <2>5 DEF AtWork, DeviceHeaders
  <2>8. Record(x, storage[i][x.m_iotOffset]) /\ Waits(x)
    BY <1>21, <2>2 DEF IotSendData, Waits, AtWork
  <2> QED
    BY <2>1, <2>2, <2>3, <2>4, <2>6, <2>7, <2>8 DEF Performs, Waits
<1>22. ASSUME NEW i \in Iots, IotFail(i) PROVE Goal
  <2>1. \A d \in Iots : iot'[d] = Closed \/ iot'[d] = iot[d]
    BY <1>22 DEF IotFail, DeviceTypes
  <2>2. \A m \in Headers : AtWork(m)' => AtWork(m)
    BY <2>1 DEF AtWork, Closed
  <2>3. \A d \in Iots : toIot'[d] = <<>> \/ toIot'[d] = toIot[d]
    BY <1>22 DEF IotFail, NetTypes
  <2>4. \A m : InTo(m)' => InTo(m)
    BY <2>3, EmptySeq DEF InTo, Has
  <2> QED
    BY <1>22, <2>2, <2>4 DEF IotFail, Idles, Waits
<1>23. CASE UNCHANGED vars
  BY <1>23 DEF vars, Idles, Waits, InTo, Has, AtWork
<1> QED
  BY <1>1, <1>2, <1>3, <1>4, <1>5, <1>6, <1>7, <1>8, <1>9, <1>10, <1>11, <1>12, <1>13,
     <1>14, <1>15, <1>16, <1>17, <1>18, <1>19, <1>20, <1>21, <1>22, <1>23
  DEF Next, Reactor, Worker, Iot, Stop

(***************************************************************************)
(* A worker sends a header once: the one it sends has no effect yet.       *)
(***************************************************************************)
LEMMA SendingUntaken ==
  ASSUME TypeInv, ServeInv, EffectInv, NEW w \in Workers, SendHeader(w), NEW x, x = Sending(w)
  PROVE  /\ x \in Headers /\ ~Took(x) /\ effect' = effect
         /\ \A m \in Headers : Waits(m)' => Waits(m) \/ m = x
<1>0. Sends(w) /\ Serves(w) /\ frag[w] \in Nat
  BY DEF SendHeader, Sends, Serves, TypeInv, WorkerTypes
<1>1. /\ held[w] \in Handles /\ Sliced(held[w]) /\ x \in Headers
      /\ frag[w] < NumOf(held[w]) /\ request[held[w]] # Unset
  BY <1>0, CurrentFragment
<1>2. x.owner = held[w] /\ x.m_fragmentIdx = frag[w] /\ x = HeaderOf(held[w], frag[w])
  BY <1>0, <1>1, MadeHeader DEF Sending
<1>3. ~WasSent(x)
  BY <1>0, <1>2 DEF WasSent, NextFrag
<1>4. ~Took(x)
  <2> SUFFICES ASSUME Took(x) PROVE FALSE
    OBVIOUS
  <2>1. PICK m \in Headers : m.owner = held[w] /\ m.m_fragmentIdx = frag[w] /\ WasSent(m)
    BY <1>1, <1>2 DEF Took, EffectInv, EffectSent
  <2>2. m = x
    BY <1>2, <2>1 DEF WasSent, IsHeader
  <2> QED
    BY <1>3, <2>1, <2>2
<1>5. effect' = effect /\ iot' = iot
  BY DEF SendHeader, iotVars
<1>6. ASSUME NEW m \in Headers, InTo(m)' PROVE InTo(m) \/ m = x
  <2>1. PICK d : d = Current(w).iot
    OBVIOUS
  <2>2. d \in Iots /\ Current(w).header = x
    BY <1>0, <2>1, CurrentFragment
  <2>3. PutTo(toIot, d, x, toIot')
    BY <1>1, <2>1, <2>2 DEF SendHeader, SendTo, PutTo, TypeInv, NetTypes, Messages
  <2>4. PICK e \in Iots : \E j \in 1 .. Len(toIot'[e]) : toIot'[e][j] = m
    BY <1>6 DEF InTo, Has
  <2>5. PICK j \in 1 .. Len(toIot'[e]) : toIot'[e][j] = m
    BY <2>4
  <2>6. toIot'[e][j] = x \/ \E k \in 1 .. Len(toIot[e]) : toIot'[e][j] = toIot[e][k]
    BY <2>3, <2>5, AllFromAppend
  <2> QED
    BY <2>5, <2>6 DEF InTo, Has
<1> QED
  BY <1>1, <1>4, <1>5, <1>6 DEF Waits, AtWork

(***************************************************************************)
(* What took effect stays so.                                              *)
(***************************************************************************)
LEMMA EffectStays ==
  ASSUME TypeInv, ServeInv, HeaderInv, FrameInv, OnceInv, EffectInv, [Next]_vars,
         NEW m \in Headers, Took(m)
  PROVE  Took(m)' /\ effect'[m.owner][m.m_fragmentIdx] = effect[m.owner][m.m_fragmentIdx]
<1>1. CASE effect' = effect
  BY <1>1 DEF Took
<1>2. ASSUME NEW x \in Headers, NEW v, Performs(x, v)
      PROVE  Took(m)' /\ effect'[m.owner][m.m_fragmentIdx] = effect[m.owner][m.m_fragmentIdx]
  <2>1. Record(x, v) /\ ~Took(x) /\ m.owner \in Handles
    BY <1>2 DEF Performs, EffectInv, Untaken, Headers
  <2>2. /\ effect'[x.owner] = [j \in DOMAIN effect[x.owner] \cup {x.m_fragmentIdx} |->
             IF j = x.m_fragmentIdx THEN v ELSE effect[x.owner][j]]
        /\ \A h \in Handles : h # x.owner => effect'[h] = effect[h]
    BY <2>1, Recorded DEF EffectInv
  <2>3. CASE m.owner = x.owner
    BY <2>1, <2>2, <2>3 DEF Took
  <2>4. CASE m.owner # x.owner
    BY <2>1, <2>2, <2>4 DEF Took
  <2> QED
    BY <2>3, <2>4
<1>3. ASSUME NEW w \in Workers, SendHeader(w) PROVE effect' = effect
  BY <1>3 DEF SendHeader, iotVars
<1> QED
  BY <1>1, <1>2, <1>3, WorkGoesOn DEF Idles

\* Every step keeps the effects to one for each fragment that was sent.
LEMMA EffectsKept ==
  ASSUME TypeInv, ServeInv, HeaderInv, FrameInv, OnceInv, EffectInv, TypeInv', [Next]_vars
  PROVE  EffectInv'
<1>0. EffectTypes /\ EffectSent /\ Untaken
  BY DEF EffectInv
<1>1. \A m \in Headers : WasSent(m) => WasSent(m)'
  BY SentStays DEF WasSent
<1>2. ASSUME effect' = effect PROVE EffectTypes' /\ EffectSent'
  BY <1>0, <1>1, <1>2 DEF EffectTypes, EffectSent
<1>3. CASE Idles
  <2>1. Untaken'
    BY <1>0, <1>3 DEF Idles, Untaken, Took
  <2> QED
    BY <1>2, <1>3, <2>1 DEF Idles, EffectInv
<1>4. ASSUME NEW w \in Workers, SendHeader(w) PROVE EffectInv'
  <2>1. PICK x : x = Sending(w)
    OBVIOUS
  <2>2. ~Took(x) /\ effect' = effect /\ \A m \in Headers : Waits(m)' => Waits(m) \/ m = x
    BY <1>4, <2>1, SendingUntaken
  <2>3. Untaken'
    BY <1>0, <2>2 DEF Untaken, Took
  <2> QED
    BY <1>2, <2>2, <2>3 DEF EffectInv
<1>5. ASSUME NEW x \in Headers, NEW v, Performs(x, v) PROVE EffectInv'
  <2>1. /\ Record(x, v) /\ WasSent(x) /\ ~Waits(x)' /\ x.owner \in Handles
        /\ \A m \in Headers : Waits(m)' => Waits(m)
    BY <1>5 DEF Performs, Headers
  <2>2. /\ effect'[x.owner] = [j \in DOMAIN effect[x.owner] \cup {x.m_fragmentIdx} |->
             IF j = x.m_fragmentIdx THEN v ELSE effect[x.owner][j]]
        /\ \A h \in Handles : h # x.owner => effect'[h] = effect[h]
        /\ EffectTypes'
    BY <1>0, <2>1, Recorded
  <2>3. ASSUME NEW h \in Handles, NEW k \in DOMAIN effect'[h]
        PROVE  k \in DOMAIN effect[h] \/ (h = x.owner /\ k = x.m_fragmentIdx)
    BY <2>2, <2>3
  <2>4. EffectSent'
    <3>1. ASSUME NEW h \in Handles, NEW k \in DOMAIN effect'[h]
          PROVE  \E m \in Headers : m.owner = h /\ m.m_fragmentIdx = k /\ WasSent(m)'
      BY <1>0, <1>1, <2>1, <2>3, <3>1 DEF EffectSent
    <3> QED
      BY <3>1 DEF EffectSent
  <2>5. Untaken'
    <3> SUFFICES ASSUME NEW m \in Headers, Waits(m)', Took(m)' PROVE FALSE
      BY DEF Untaken
    <3>1. m # x /\ Waits(m) /\ ~Took(m) /\ m.owner \in Handles
      BY <1>0, <2>1 DEF Untaken, Headers
    <3>2. m.owner = x.owner /\ m.m_fragmentIdx = x.m_fragmentIdx
      BY <2>3, <3>1 DEF Took
    <3>3. IsHeader(m)
      <4>1. CASE InTo(m)
        BY <4>1 DEF InTo, Has, HeaderInv, RequestHeaders, Headers, IsSent
      <4>2. CASE AtWork(m)
        BY <4>2 DEF AtWork, HeaderInv, DeviceHeaders, IsSent, WasSent
      <4> QED
        BY <3>1, <4>1, <4>2 DEF Waits
    <3> QED
      BY <2>1, <3>1, <3>2, <3>3 DEF WasSent, IsHeader
  <2> QED
    BY <2>2, <2>4, <2>5 DEF EffectInv
<1> QED
  BY <1>3, <1>4, <1>5, WorkGoesOn

-----------------------------------------------------------------------------
(***************************************************************************)
(* A request is kept by somebody until it is answered, a disconnect for    *)
(* ever.  An answer comes when nobody keeps it, and nobody takes it up     *)
(* again.                                                                  *)
(***************************************************************************)
Fresh(h)  == request[h] = Unset \/ InNbd(h)
Queued(h) == RequestTask(h) \in tasks \/ \E w \in Workers : pc[w] = "slice" /\ held[w] = h

NotLost == \A h \in Handles : ~Fresh(h) /\ ~Sliced(h) => Queued(h)
DisconnectKept ==
  \A h \in Handles : Sliced(h) /\ request[h].type = "DISC" => Kept(h) /\ m_countSlices[h] <= 0
AnsweredLast ==
  /\ answered = [h \in Handles |-> answered[h]]
  /\ \A h \in Handles : Fresh(h) => ~Referenced(h) /\ answered[h] = Unset
  /\ \A h \in Handles : answered[h] # Unset => ~Referenced(h)

RefInv == NotLost /\ DisconnectKept /\ AnsweredLast

(***************************************************************************)
(* The deleter answers the request whose last reference goes.              *)
(***************************************************************************)
LEMMA Dropped ==
  ASSUME NEW o \in Handles, DropReference(o), answered = [h \in Handles |-> answered[h]]
  PROVE  /\ answered' = [h \in Handles |-> answered'[h]]
         /\ \A h \in Handles : answered'[h] = answered[h] \/ (h = o /\ ~Referenced(o)')
<1>1. \/ answered' = answered
      \/ ~Referenced(o)' /\ answered' = [answered EXCEPT ![o] = NbdReply(o)]
  BY Zenon DEF DropReference
<1>2. CASE answered' = answered
  BY <1>2
<1>3. CASE ~Referenced(o)' /\ answered' = [answered EXCEPT ![o] = NbdReply(o)]
  <2>1. PICK v : answered' = [answered EXCEPT ![o] = v]
    BY <1>3
  <2> QED
    BY <1>3, <2>1
<1> QED
  BY <1>1, <1>2, <1>3

(***************************************************************************)
(* A request is taken from the kernel's socket once, is not taken up       *)
(* again, and is answered in the step that drops its last reference.       *)
(***************************************************************************)
Ages(h) ==
  /\ Fresh(h)' => Fresh(h)
  /\ Referenced(h)' => Referenced(h) \/ (Fresh(h) /\ ~Fresh(h)')
  /\ answered'[h] = answered[h] \/ (Referenced(h) /\ ~Referenced(h)')
Aging == answered' = [h \in Handles |-> answered'[h]] /\ \A h \in Handles : Ages(h)

(***************************************************************************)
(* Every step of it.                                                       *)
(***************************************************************************)
LEMMA RequestsAge ==
  ASSUME TypeInv, ServeInv, UidInv, HeaderInv, answered = [h \in Handles |-> answered[h]],
         [Next]_vars
  PROVE  Aging
<1> USE DEF kernelVars, requestVars, reactorVars, workerVars, slicerVars, netVars, iotVars,
            iotUnchanged
<1>0. KernelTypes /\ TaskTypes /\ WorkerTypes /\ SlicerTypes
  BY DEF TypeInv
<1> USE <1>0
<1>1. ASSUME NEW h \in Handles, NEW s \in Shapes, KernelSubmit(h, s) PROVE Aging
  <2>1. \A g \in Handles : Referenced(g)' <=> Referenced(g)
    BY <1>1 DEF KernelSubmit, Referenced
  <2>2. ASSUME NEW g \in Handles, InNbd(g)' PROVE InNbd(g) \/ g = h
    <3>1. nbdSocket' = Append(nbdSocket, h) /\ nbdSocket \in Seq(Handles)
      BY <1>1 DEF KernelSubmit, KernelTypes
    <3>2. /\ Len(nbdSocket') = Len(nbdSocket) + 1 /\ Len(nbdSocket) \in Nat /\
               nbdSocket'[Len(nbdSocket) + 1] = h
          /\ \A j \in 1 .. Len(nbdSocket) : nbdSocket'[j] = nbdSocket[j]
      BY <3>1, AppendProperties
    <3>3. PICK j \in 1 .. Len(nbdSocket') : nbdSocket'[j] = g
      BY <2>2 DEF InNbd
    <3>4. j \in 1 .. Len(nbdSocket) \/ j = Len(nbdSocket) + 1
      BY <3>2, <3>3
    <3> QED
      BY <3>2, <3>3, <3>4 DEF InNbd
  <2>3. \A g \in Handles : g # h => request'[g] = request[g]
    BY <1>1 DEF KernelSubmit, KernelTypes
  <2>4. \A g \in Handles : Fresh(g)' => Fresh(g)
    BY <1>1, <2>2, <2>3 DEF Fresh, KernelSubmit
  <2>5. answered' = answered
    BY <1>1 DEF KernelSubmit
  <2> QED
    BY <2>1, <2>4, <2>5 DEF Aging, Ages
<1>2. CASE KernelShutdown
  BY <1>2 DEF KernelShutdown, Aging, Ages, Fresh, InNbd, Referenced
<1>3. CASE ManageRequests
  <2>1. PICK o \in Handles : o = Head(nbdSocket)
    BY <1>3, TakeOne DEF ManageRequests, KernelTypes
  <2>2. /\ Head(nbdSocket) = nbdSocket[1] /\ Len(nbdSocket) \in Nat /\ Len(nbdSocket) >= 1
        /\ Len(nbdSocket') = Len(nbdSocket) - 1
        /\ \A j \in 1 .. Len(nbdSocket') : j + 1 \in 1 .. Len(nbdSocket) /\
             nbdSocket'[j] = nbdSocket[j + 1]
    BY <1>3, TakeOne DEF ManageRequests, KernelTypes
  <2>3. \A g \in Handles : InNbd(g)' => InNbd(g)
    BY <2>2 DEF InNbd
  <2>4. InNbd(o)
    BY <2>1, <2>2 DEF InNbd
  <2>5. ~InNbd(o)'
    <3>1. ASSUME NEW j \in 1 .. Len(nbdSocket'), nbdSocket'[j] = o PROVE FALSE
      <4>1. j + 1 \in 1 .. Len(nbdSocket) /\ nbdSocket[j + 1] = nbdSocket[1] /\
              1 \in 1 .. Len(nbdSocket)
        BY <2>1, <2>2, <3>1
      <4>2. j + 1 = 1
        BY <4>1 DEF ServeInv, SocketOK
      <4> QED
        BY <4>2
    <3> QED
      BY <3>1 DEF InNbd
  <2>6. request' = request /\ request[o] # Unset /\ answered' = answered
    BY <1>3, <2>4 DEF ManageRequests, ServeInv, SocketOK
  <2>7. ASSUME NEW g \in Handles, Referenced(g)' PROVE Referenced(g) \/ g = o
    <3>1. reactor' = Returning(o) /\ tasks' = tasks \cup {RequestTask(o)} /\ held' = held /\
            m_slicerMap' = m_slicerMap
      BY <1>3, <2>1 DEF ManageRequests
    <3>2. (Returning(g) = Returning(o) \/ RequestTask(g) = RequestTask(o)) => g = o
      BY DEF Returning, RequestTask
    <3> QED
      BY <2>7, <3>1, <3>2 DEF Referenced
  <2> QED
    BY <2>3, <2>4, <2>5, <2>6, <2>7 DEF Aging, Ages, Fresh
<1>4. CASE ReactorReturn
  <2>1. PICK o \in Handles : reactor = Returning(o) /\ DropReference(o)
    BY <1>4 DEF ReactorReturn
  <2>2. \A g \in Handles : Fresh(g)' <=> Fresh(g)
    BY <1>4 DEF ReactorReturn, Fresh, InNbd
  <2>3. /\ answered' = [g \in Handles |-> answered'[g]]
        /\ \A g \in Handles : answered'[g] = answered[g] \/ (g = o /\ ~Referenced(o)')
    BY <2>1, Dropped
  <2>4. Referenced(o)
    BY <2>1 DEF Referenced
  <2>5. \A g \in Handles : Referenced(g)' => Referenced(g)
    BY <1>4 DEF ReactorReturn, Referenced, Select, Returning
  <2> QED
    BY <2>2, <2>3, <2>4, <2>5 DEF Aging, Ages
<1>5. CASE ReactorAtEof
  <2>2. \A g \in Handles : Fresh(g)' <=> Fresh(g)
    BY <1>5 DEF ReactorAtEof, Fresh, InNbd
  <2>3. UNCHANGED <<held, m_slicerMap, answered>>
    BY <1>5 DEF ReactorAtEof
  <2>4. \A g : reactor' = Returning(g) => reactor = Returning(g)
    BY <1>5 DEF ReactorAtEof, Select, ReadingData, Returning, Spinning
  <2>5. \A g : RequestTask(g) \in tasks' => RequestTask(g) \in tasks
    BY <1>5 DEF ReactorAtEof, RequestTask, ReplyTask
  <2>6. \A g \in Handles : Referenced(g)' => Referenced(g)
    BY <2>3, <2>4, <2>5 DEF Referenced
  <2> QED
    BY <2>2, <2>3, <2>6 DEF Aging, Ages
<1>6. ASSUME NEW i \in Iots, ManageReplies(i) PROVE Aging
  <2>2. \A g \in Handles : Fresh(g)' <=> Fresh(g)
    BY <1>6 DEF ManageReplies, Fresh, InNbd
  <2>3. UNCHANGED <<held, m_slicerMap, answered>>
    BY <1>6 DEF ManageReplies
  <2>4. \A g : reactor' = Returning(g) => reactor = Returning(g)
    BY <1>6 DEF ManageReplies, Select, ReadingData, Returning, Spinning
  <2>5. \A g : RequestTask(g) \in tasks' => RequestTask(g) \in tasks
    BY <1>6 DEF ManageReplies, RequestTask, ReplyTask
  <2>6. \A g \in Handles : Referenced(g)' => Referenced(g)
    BY <2>3, <2>4, <2>5 DEF Referenced
  <2> QED
    BY <2>2, <2>3, <2>6 DEF Aging, Ages
<1>7. ASSUME NEW i \in Iots, ManageRepliesData(i) PROVE Aging
  <2>2. \A g \in Handles : Fresh(g)' <=> Fresh(g)
    BY <1>7 DEF ManageRepliesData, Fresh, InNbd
  <2>3. UNCHANGED <<held, m_slicerMap, answered>>
    BY <1>7 DEF ManageRepliesData
  <2>4. \A g : reactor' = Returning(g) => reactor = Returning(g)
    BY <1>7 DEF ManageRepliesData, Select, ReadingData, Returning, Spinning
  <2>5. \A g : RequestTask(g) \in tasks' => RequestTask(g) \in tasks
    BY <1>7 DEF ManageRepliesData, RequestTask, ReplyTask
  <2>6. \A g \in Handles : Referenced(g)' => Referenced(g)
    BY <2>3, <2>4, <2>5 DEF Referenced
  <2> QED
    BY <2>2, <2>3, <2>6 DEF Aging, Ages
<1>8. ASSUME NEW i \in Iots, ManageRepliesEof(i) PROVE Aging
  <2>2. \A g \in Handles : Fresh(g)' <=> Fresh(g)
    BY <1>8 DEF ManageRepliesEof, Fresh, InNbd
  <2>3. UNCHANGED <<held, m_slicerMap, answered>>
    BY <1>8 DEF ManageRepliesEof
  <2>4. \A g : reactor' = Returning(g) => reactor = Returning(g)
    BY <1>8 DEF ManageRepliesEof, Select, ReadingData, Returning, Spinning
  <2>5. \A g : RequestTask(g) \in tasks' => RequestTask(g) \in tasks
    BY <1>8 DEF ManageRepliesEof, RequestTask, ReplyTask
  <2>6. \A g \in Handles : Referenced(g)' => Referenced(g)
    BY <2>3, <2>4, <2>5 DEF Referenced
  <2> QED
    BY <2>2, <2>3, <2>6 DEF Aging, Ages
<1>9. ASSUME NEW w \in Workers, Pop(w) PROVE Aging
  <2>1. PICK t \in tasks : /\ tasks' = tasks \ {t}
          /\ IF t.kind = "request" THEN held' = [held EXCEPT ![w] = t.h] ELSE UNCHANGED held
    BY <1>9 DEF Pop
  <2>2. \A g \in Handles : Fresh(g)' <=> Fresh(g)
    BY <1>9 DEF Pop, Fresh, InNbd
  <2>3. t.kind = "request" => t = RequestTask(t.h)
    BY <2>1 DEF TaskTypes, RequestTasks, ReplyTasks, RequestTask
  <2>4. \A v \in Workers : held'[v] = held[v] \/ RequestTask(held'[v]) \in tasks
    BY <2>1, <2>3 DEF WorkerTypes
  <2>5. UNCHANGED <<reactor, m_slicerMap, answered>>
    BY <1>9 DEF Pop
  <2>6. \A g \in Handles : Referenced(g)' => Referenced(g)
    BY <2>1, <2>4, <2>5 DEF Referenced
  <2> QED
    BY <2>2, <2>5, <2>6 DEF Aging, Ages
<1>10. ASSUME NEW w \in Workers, Slice(w) PROVE Aging
  BY <1>10 DEF Slice, Aging, Ages, Fresh, InNbd, Referenced
<1>11. ASSUME NEW w \in Workers, InsertSlicer(w) PROVE Aging
  <2>1. held[w] \in Handles /\ m_requestUid[held[w]] \in Uids /\
          m_slicerMap[m_requestUid[held[w]]] = Nobody
    BY <1>11 DEF InsertSlicer, ServeInv, WorkersOK, Serves, Sliced, SlicerTypes, UidInv
  <2>2. \A g \in Handles : Fresh(g)' <=> Fresh(g)
    BY <1>11 DEF InsertSlicer, Fresh, InNbd
  <2>3. answered' = answered
    BY <1>11, <2>1, NamesAssumption DEF InsertSlicer
  <2>4. \A u \in Uids : m_slicerMap'[u] = m_slicerMap[u] \/ m_slicerMap'[u] = held[w]
    BY <1>11 DEF InsertSlicer, SlicerTypes
  <2>5. DOMAIN m_slicerMap = Uids /\ DOMAIN m_slicerMap' = Uids
    BY <1>11 DEF InsertSlicer, SlicerTypes
  <2>6. \A g \in Handles : Referenced(g)' => Referenced(g)
    <3>1. UNCHANGED <<reactor, tasks, held>>
      BY <1>11 DEF InsertSlicer
    <3> QED
      BY <2>4, <2>5, <3>1 DEF Referenced
  <2> QED
    BY <2>2, <2>3, <2>6 DEF Aging, Ages
<1>12. ASSUME NEW w \in Workers, SenderLock(w) PROVE Aging
  BY <1>12 DEF SenderLock, Aging, Ages, Fresh, InNbd, Referenced
<1>13. ASSUME NEW w \in Workers, SendHeader(w) PROVE Aging
  BY <1>13 DEF SendHeader, Aging, Ages, Fresh, InNbd, Referenced
<1>14. ASSUME NEW w \in Workers, SendData(w) PROVE Aging
  BY <1>14 DEF SendData, Aging, Ages, Fresh, InNbd, Referenced
<1>15. ASSUME NEW w \in Workers, SendFails(w) PROVE Aging
  BY <1>15 DEF SendFails, Aging, Ages, Fresh, InNbd, Referenced
<1>16. ASSUME NEW w \in Workers, Reply(w) PROVE Aging
  <2>1. PICK u \in Uids, ks \in SUBSET Int : Strays(u, ks) \/ \E h \in Handles : Finds(w, u, ks, h)
    BY <1>16, ReplyDoes
  <2>2. \A g \in Handles : Fresh(g)' <=> Fresh(g)
    BY <1>16 DEF Reply, Fresh, InNbd
  <2>3. PICK o : o = m_slicerMap[u]
    OBVIOUS
  <2>4. \A v \in Workers : held'[v] = held[v] \/ held'[v] = o
    BY <2>1, <2>3 DEF Strays, Finds, WorkerTypes
  <2>5. DOMAIN m_slicerMap' = Uids /\ \A a \in Uids : m_slicerMap'[a] = m_slicerMap[a] \/
          m_slicerMap'[a] = Nobody
    BY <2>1 DEF Strays, Finds, SlicerTypes
  <2>6. UNCHANGED <<reactor, tasks, answered>>
    BY <1>16 DEF Reply
  <2>7. \A g \in Handles : Referenced(g)' => Referenced(g)
    BY <2>3, <2>4, <2>5, <2>6, NamesAssumption DEF Referenced, SlicerTypes
  <2> QED
    BY <2>2, <2>6, <2>7 DEF Aging, Ages
<1>17. ASSUME NEW w \in Workers, Release(w) PROVE Aging
  <2>1. PICK o \in Handles : held[w] = o /\ DropReference(o)
    BY <1>17 DEF Release
  <2>2. \A g \in Handles : Fresh(g)' <=> Fresh(g)
    BY <1>17 DEF Release, Fresh, InNbd
  <2>3. /\ answered' = [g \in Handles |-> answered'[g]]
        /\ \A g \in Handles : answered'[g] = answered[g] \/ (g = o /\ ~Referenced(o)')
    BY <2>1, Dropped
  <2>4. Referenced(o)
    BY <2>1 DEF Referenced
  <2>5. \A v \in Workers : held'[v] = held[v] \/ held'[v] = Nobody
    BY <1>17 DEF Release, WorkerTypes
  <2>6. \A g \in Handles : Referenced(g)' => Referenced(g)
    BY <1>17, <2>5, NamesAssumption DEF Release, Referenced
  <2> QED
    BY <2>2, <2>3, <2>4, <2>6 DEF Aging, Ages
<1>18. ASSUME NEW i \in Iots, IotReadHeader(i) PROVE Aging
  BY <1>18 DEF IotReadHeader, Aging, Ages, Fresh, InNbd, Referenced
<1>19. ASSUME NEW i \in Iots, IotWrite(i) PROVE Aging
  BY <1>19 DEF IotWrite, Aging, Ages, Fresh, InNbd, Referenced
<1>20. ASSUME NEW i \in Iots, IotSendHeader(i) PROVE Aging
  BY <1>20 DEF IotSendHeader, Aging, Ages, Fresh, InNbd, Referenced
<1>21. ASSUME NEW i \in Iots, IotSendData(i) PROVE Aging
  BY <1>21 DEF IotSendData, Aging, Ages, Fresh, InNbd, Referenced
<1>22. ASSUME NEW i \in Iots, IotFail(i) PROVE Aging
  BY <1>22 DEF IotFail, Aging, Ages, Fresh, InNbd, Referenced
<1>23. CASE UNCHANGED vars
  BY <1>23 DEF vars, Aging, Ages, Fresh, InNbd, Referenced
<1> QED
  BY <1>1, <1>2, <1>3, <1>4, <1>5, <1>6, <1>7, <1>8, <1>9, <1>10, <1>11, <1>12, <1>13,
     <1>14, <1>15, <1>16, <1>17, <1>18, <1>19, <1>20, <1>21, <1>22, <1>23
  DEF Next, Reactor, Worker, Iot, Stop

(***************************************************************************)
(* A request waits in a task or a worker until it is sliced.               *)
(***************************************************************************)
Waiting ==
  \A h \in Handles : ~Fresh(h)' /\ ~Sliced(h)' /\ (Fresh(h) \/ Queued(h)) => Queued(h)'

(***************************************************************************)
(* Every step of it.                                                       *)
(***************************************************************************)
LEMMA RequestsWait ==
  ASSUME TypeInv, ServeInv, [Next]_vars
  PROVE  Waiting
<1> USE DEF kernelVars, requestVars, reactorVars, workerVars, slicerVars, netVars, iotVars,
            iotUnchanged
<1>0. KernelTypes /\ TaskTypes /\ WorkerTypes /\ SlicerTypes
  BY DEF TypeInv
<1> USE <1>0
<1>1. ASSUME NEW h \in Handles, NEW s \in Shapes, KernelSubmit(h, s) PROVE Waiting
  <2>1. ASSUME NEW g \in Handles, ~Fresh(g)' PROVE ~Fresh(g)
    <3>1. nbdSocket' = Append(nbdSocket, h) /\ nbdSocket \in Seq(Handles)
      BY <1>1 DEF KernelSubmit, KernelTypes
    <3>2. /\ Len(nbdSocket') = Len(nbdSocket) + 1 /\ Len(nbdSocket) \in Nat /\
               nbdSocket'[Len(nbdSocket) + 1] = h
          /\ \A j \in 1 .. Len(nbdSocket) : nbdSocket'[j] = nbdSocket[j]
      BY <3>1, AppendProperties
    <3>3. InNbd(h)'
      BY <3>2 DEF InNbd
    <3>4. g # h /\ (InNbd(g) => InNbd(g)')
      BY <2>1, <3>2, <3>3 DEF InNbd, Fresh
    <3> QED
      BY <1>1, <2>1, <3>4 DEF KernelSubmit, KernelTypes, Fresh
  <2>2. \A g \in Handles : Queued(g) => Queued(g)'
    BY <1>1 DEF KernelSubmit, Queued
  <2> QED
    BY <2>1, <2>2 DEF Waiting
<1>2. CASE KernelShutdown
  BY <1>2 DEF KernelShutdown, Waiting, Fresh, InNbd, Queued, Sliced
<1>3. CASE ManageRequests
  <2>1. PICK o \in Handles : o = Head(nbdSocket)
    BY <1>3, TakeOne DEF ManageRequests, KernelTypes
  <2>2. /\ Head(nbdSocket) = nbdSocket[1] /\ Len(nbdSocket) \in Nat /\ Len(nbdSocket) >= 1
        /\ Len(nbdSocket') = Len(nbdSocket) - 1
        /\ \A j \in 1 .. Len(nbdSocket') : j + 1 \in 1 .. Len(nbdSocket) /\
             nbdSocket'[j] = nbdSocket[j + 1]
    BY <1>3, TakeOne DEF ManageRequests, KernelTypes
  <2>3. ASSUME NEW g \in Handles, InNbd(g), g # o PROVE InNbd(g)'
    <3>1. PICK j \in 1 .. Len(nbdSocket) : nbdSocket[j] = g
      BY <2>3 DEF InNbd
    <3>2. j # 1 /\ j - 1 \in 1 .. Len(nbdSocket')
      BY <2>1, <2>2, <2>3, <3>1
    <3>3. nbdSocket'[j - 1] = nbdSocket[(j - 1) + 1] /\ (j - 1) + 1 = j
      BY <2>2, <3>2
    <3> QED
      BY <3>1, <3>2, <3>3 DEF InNbd
  <2>4. tasks' = tasks \cup {RequestTask(o)} /\ UNCHANGED <<pc, held, request>>
    BY <1>3, <2>1 DEF ManageRequests
  <2>5. \A g \in Handles : (g = o \/ Queued(g)) => Queued(g)'
    BY <2>4 DEF Queued
  <2> QED
    BY <2>3, <2>4, <2>5 DEF Waiting, Fresh
<1>4. CASE ReactorReturn
  BY <1>4 DEF ReactorReturn, Waiting, Fresh, InNbd, Queued, Sliced
<1>5. CASE ReactorAtEof
  BY <1>5 DEF ReactorAtEof, Waiting, Fresh, InNbd, Queued, Sliced
<1>6. ASSUME NEW i \in Iots, ManageReplies(i) PROVE Waiting
  BY <1>6 DEF ManageReplies, Waiting, Fresh, InNbd, Queued, Sliced
<1>7. ASSUME NEW i \in Iots, ManageRepliesData(i) PROVE Waiting
  BY <1>7 DEF ManageRepliesData, Waiting, Fresh, InNbd, Queued, Sliced
<1>8. ASSUME NEW i \in Iots, ManageRepliesEof(i) PROVE Waiting
  BY <1>8 DEF ManageRepliesEof, Waiting, Fresh, InNbd, Queued, Sliced
<1>9. ASSUME NEW w \in Workers, Pop(w) PROVE Waiting
  <2>1. PICK t \in tasks : /\ tasks' = tasks \ {t} /\ pc[w] = "pop"
          /\ IF t.kind = "request" THEN GoTo(w, "slice") /\ held' = [held EXCEPT ![w] = t.h]
                                   ELSE GoTo(w, "reply") /\ UNCHANGED held
    BY <1>9 DEF Pop
  <2>2. \A g \in Handles : Fresh(g)' <=> Fresh(g)
    BY <1>9 DEF Pop, Fresh, InNbd
  <2>3. \A v \in Workers : pc[v] = "slice" => pc'[v] = "slice" /\ held'[v] = held[v]
    BY <2>1 DEF GoTo, WorkerTypes
  <2>4. t.kind = "request" => pc'[w] = "slice" /\ held'[w] = t.h
    BY <2>1 DEF GoTo, WorkerTypes
  <2>5. \A g : RequestTask(g).kind = "request" /\ RequestTask(g).h = g
    BY DEF RequestTask
  <2>6. \A g \in Handles : Queued(g) => Queued(g)'
    BY <2>1, <2>3, <2>4, <2>5 DEF Queued
  <2> QED
    BY <2>2, <2>6 DEF Waiting
<1>10. ASSUME NEW w \in Workers, Slice(w) PROVE Waiting
  <2>1. \A g \in Handles : Fresh(g)' <=> Fresh(g)
    BY <1>10 DEF Slice, Fresh, InNbd
  <2>2. request_counter % UidSpace # Unset
    BY Division, UidSpaceAssumption, NamesAssumption DEF TypeInv, SlicerTypes
  <2>3. PICK u : u = request_counter % UidSpace
    OBVIOUS
  <2>4. Sliced(held[w])' \/ held[w] \notin Handles
    BY <1>10, <2>2, <2>3 DEF Slice, Sliced, SlicerTypes
  <2>5. \A v \in Workers : v # w => pc'[v] = pc[v]
    BY <1>10 DEF Slice, GoTo, WorkerTypes
  <2>6. UNCHANGED <<held, tasks>>
    BY <1>10 DEF Slice
  <2>7. \A g \in Handles : ~Sliced(g)' /\ Queued(g) => Queued(g)'
    BY <2>4, <2>5, <2>6 DEF Queued, Sliced
  <2> QED
    BY <2>1, <2>7 DEF Waiting
<1>11. ASSUME NEW w \in Workers, InsertSlicer(w) PROVE Waiting
  <2>1. \A g \in Handles : Fresh(g)' <=> Fresh(g)
    BY <1>11 DEF InsertSlicer, Fresh, InNbd
  <2>2. \A v \in Workers : pc[v] = "slice" => pc'[v] = "slice" /\ held'[v] = held[v]
    BY <1>11 DEF InsertSlicer, GoTo, NextFragment, WorkerTypes
  <2>3. UNCHANGED tasks
    BY <1>11 DEF InsertSlicer
  <2>4. \A g \in Handles : Queued(g) => Queued(g)'
    BY <2>2, <2>3 DEF Queued
  <2> QED
    BY <2>1, <2>4 DEF Waiting
<1>12. ASSUME NEW w \in Workers, SenderLock(w) PROVE Waiting
  <2>1. \A g \in Handles : Fresh(g)' <=> Fresh(g)
    BY <1>12 DEF SenderLock, Fresh, InNbd
  <2>2. \A v \in Workers : pc[v] = "slice" => pc'[v] = "slice" /\ held'[v] = held[v]
    BY <1>12 DEF SenderLock, GoTo, NextFragment, WorkerTypes
  <2>3. UNCHANGED tasks
    BY <1>12 DEF SenderLock
  <2>4. \A g \in Handles : Queued(g) => Queued(g)'
    BY <2>2, <2>3 DEF Queued
  <2> QED
    BY <2>1, <2>4 DEF Waiting
<1>13. ASSUME NEW w \in Workers, SendHeader(w) PROVE Waiting
  <2>1. \A g \in Handles : Fresh(g)' <=> Fresh(g)
    BY <1>13 DEF SendHeader, Fresh, InNbd
  <2>2. \A v \in Workers : pc[v] = "slice" => pc'[v] = "slice" /\ held'[v] = held[v]
    BY <1>13 DEF SendHeader, GoTo, NextFragment, WorkerTypes
  <2>3. UNCHANGED tasks
    BY <1>13 DEF SendHeader
  <2>4. \A g \in Handles : Queued(g) => Queued(g)'
    BY <2>2, <2>3 DEF Queued
  <2> QED
    BY <2>1, <2>4 DEF Waiting
<1>14. ASSUME NEW w \in Workers, SendData(w) PROVE Waiting
  <2>1. \A g \in Handles : Fresh(g)' <=> Fresh(g)
    BY <1>14 DEF SendData, Fresh, InNbd
  <2>2. \A v \in Workers : pc[v] = "slice" => pc'[v] = "slice" /\ held'[v] = held[v]
    BY <1>14 DEF SendData, GoTo, NextFragment, WorkerTypes
  <2>3. UNCHANGED tasks
    BY <1>14 DEF SendData
  <2>4. \A g \in Handles : Queued(g) => Queued(g)'
    BY <2>2, <2>3 DEF Queued
  <2> QED
    BY <2>1, <2>4 DEF Waiting
<1>15. ASSUME NEW w \in Workers, SendFails(w) PROVE Waiting
  BY <1>15 DEF SendFails, Waiting, Fresh, InNbd, Queued, Sliced
<1>16. ASSUME NEW w \in Workers, Reply(w) PROVE Waiting
  <2>1. \A g \in Handles : Fresh(g)' <=> Fresh(g)
    BY <1>16 DEF Reply, Fresh, InNbd
  <2>2. \A v \in Workers : pc[v] = "slice" => pc'[v] = "slice" /\ held'[v] = held[v]
    BY <1>16 DEF Reply, GoTo, NextFragment, WorkerTypes
  <2>3. UNCHANGED tasks
    BY <1>16 DEF Reply
  <2>4. \A g \in Handles : Queued(g) => Queued(g)'
    BY <2>2, <2>3 DEF Queued
  <2> QED
    BY <2>1, <2>4 DEF Waiting
<1>17. ASSUME NEW w \in Workers, Release(w) PROVE Waiting
  <2>1. \A g \in Handles : Fresh(g)' <=> Fresh(g)
    BY <1>17 DEF Release, Fresh, InNbd
  <2>2. \A v \in Workers : pc[v] = "slice" => pc'[v] = "slice" /\ held'[v] = held[v]
    BY <1>17 DEF Release, GoTo, NextFragment, WorkerTypes
  <2>3. UNCHANGED tasks
    BY <1>17 DEF Release
  <2>4. \A g \in Handles : Queued(g) => Queued(g)'
    BY <2>2, <2>3 DEF Queued
  <2> QED
    BY <2>1, <2>4 DEF Waiting
<1>18. ASSUME NEW i \in Iots, IotReadHeader(i) PROVE Waiting
  BY <1>18 DEF IotReadHeader, Waiting, Fresh, InNbd, Queued, Sliced
<1>19. ASSUME NEW i \in Iots, IotWrite(i) PROVE Waiting
  BY <1>19 DEF IotWrite, Waiting, Fresh, InNbd, Queued, Sliced
<1>20. ASSUME NEW i \in Iots, IotSendHeader(i) PROVE Waiting
  BY <1>20 DEF IotSendHeader, Waiting, Fresh, InNbd, Queued, Sliced
<1>21. ASSUME NEW i \in Iots, IotSendData(i) PROVE Waiting
  BY <1>21 DEF IotSendData, Waiting, Fresh, InNbd, Queued, Sliced
<1>22. ASSUME NEW i \in Iots, IotFail(i) PROVE Waiting
  BY <1>22 DEF IotFail, Waiting, Fresh, InNbd, Queued, Sliced
<1>23. CASE UNCHANGED vars
  BY <1>23 DEF vars, Waiting, Fresh, InNbd, Queued, Sliced
<1> QED
  BY <1>1, <1>2, <1>3, <1>4, <1>5, <1>6, <1>7, <1>8, <1>9, <1>10, <1>11, <1>12, <1>13,
     <1>14, <1>15, <1>16, <1>17, <1>18, <1>19, <1>20, <1>21, <1>22, <1>23
  DEF Next, Reactor, Worker, Iot, Stop

\* Every step keeps the references to the requests not yet answered.
LEMMA ReferencesKept ==
  ASSUME TypeInv, ServeInv, UidInv, HeaderInv, RefInv, [Next]_vars
  PROVE  RefInv'
<1>0. NotLost /\ DisconnectKept /\ AnsweredLast
  BY DEF RefInv
<1>1. Aging /\ Waiting
  BY <1>0, RequestsAge, RequestsWait DEF AnsweredLast
<1>2. NotLost'
  <2> SUFFICES ASSUME NEW h \in Handles, ~Fresh(h)', ~Sliced(h)' PROVE Queued(h)'
    BY DEF NotLost
  <2>1. ~Sliced(h)
    BY FragmentStays
  <2> QED
    BY <1>0, <1>1, <2>1 DEF NotLost, Waiting
<1>3. AnsweredLast'
  <2>1. ASSUME NEW h \in Handles
        PROVE  /\ Fresh(h)' => ~Referenced(h)' /\ answered'[h] = Unset
               /\ answered'[h] # Unset => ~Referenced(h)'
    BY <1>0, <1>1 DEF AnsweredLast, Aging, Ages
  <2> QED
    BY <1>1, <2>1 DEF AnsweredLast, Aging
<1>4. DisconnectKept'
  <2> SUFFICES ASSUME NEW h \in Handles, Sliced(h)', request'[h].type = "DISC"
               PROVE  Kept(h)' /\ m_countSlices'[h] <= 0
    BY DEF DisconnectKept
  <2>1. CASE ~Sliced(h)
    <3>1. PICK w \in Workers : Slice(w) /\ held[w] = h
      BY <2>1, FreshSlicer
    <3>2. m_countSlices'[h] = NumOf(h) /\ request[h] \in Shapes /\ request'[h] = request[h]
      BY <3>1 DEF Slice, NumOf, kernelVars, ServeInv, WorkersOK, Serves, HasBuffer, TypeInv,
         KernelTypes, SlicerTypes
    <3> QED
      BY <3>1, <3>2, SliceCounts, ShapeFacts DEF NumOf
  <2>2. CASE Sliced(h)
    <3>1. /\ Kept(h) /\ m_countSlices[h] <= 0 /\ request[h] = request'[h] /\ request[h] \in Shapes
          /\ m_requestUid[h] \in Uids /\ SlicerTypes /\ WorkerTypes
      BY <1>0, <2>2, FragmentStays DEF DisconnectKept, TypeInv, SlicerTypes, Sliced
    <3>2. ASSUME NEW w \in Workers, Reply(w) PROVE Kept(h)' /\ m_countSlices'[h] <= 0
      <4>1. PICK u \in Uids, ks \in SUBSET Int :
              Strays(u, ks) \/ \E g \in Handles : Finds(w, u, ks, g)
        BY <3>2, ReplyDoes
      <4>2. m_requestUid' = m_requestUid /\ pc[w] = "reply"
        BY <3>2 DEF Reply
      <4>3. CASE Strays(u, ks)
        BY <3>1, <4>2, <4>3 DEF Strays, Kept
      <4>4. ASSUME NEW g \in Handles, Finds(w, u, ks, g) PROVE Kept(h)' /\ m_countSlices'[h] <= 0
        <5>1. \A v \in Workers : pc[v] = "insert" => pc'[v] = "insert" /\ held'[v] = held[v]
          BY <3>1, <4>2, <4>4 DEF Finds, GoTo, WorkerTypes
        <5>2. m_countSlices'[h] = IF g = h THEN m_countSlices[h] - 1 ELSE m_countSlices[h]
          BY <3>1, <4>4 DEF Finds, SlicerTypes
        <5>3. m_slicerMap[m_requestUid[h]] = h => m_slicerMap'[m_requestUid[h]] = h
          BY <3>1, <4>4 DEF Finds, IsReplyReady, SlicerTypes
        <5> QED
          BY <3>1, <4>2, <5>1, <5>2, <5>3 DEF Kept, SlicerTypes
      <4> QED
        BY <4>1, <4>3, <4>4
    <3>3. Same(h) => Kept(h)' /\ m_countSlices'[h] <= 0
      BY <3>1 DEF Same
    <3> QED
      BY <2>2, <3>2, <3>3, SlicerStays
  <2> QED
    BY <2>1, <2>2
<1> QED
  BY <1>2, <1>3, <1>4 DEF RefInv

-----------------------------------------------------------------------------
(***************************************************************************)
(* While the devices are up a reply comes after the effect and, for a      *)
(* READ, carries it to the buffer.                                         *)
(***************************************************************************)
Tells(m, v) == Took(m) /\ (m.m_type = "READ" => v = effect[m.owner][m.m_fragmentIdx])

AtAck(m) == \E i \in Iots : iot[i].at = "ack" /\ iot[i].header = m
AcksTell == \A m \in Headers : m.m_type = "WRITE" /\ (AtAck(m) \/ InFrom(m)) => Took(m)

Nothing == CHOOSE v : v \notin Bytes
Effects ==
  [h \in Handles |-> [k \in Nat |-> IF k \in DOMAIN effect[h] THEN effect[h][k] ELSE Nothing]]
StreamsTell ==
  \A i \in Iots :
    /\ Carries(Effects, fromIot[i], FirstFrom(i))
    /\ iot[i].at = "sendData" => LastOf(fromIot[i], FirstFrom(i)) = iot[i].header
Replies(t) == t \in tasks \/ \E w \in Workers : pc[w] = "reply" /\ task[w] = t
TasksTell ==
  \A t \in ReplyTasks : Replies(t) /\ t.header \in Headers => Tells(t.header, t.bytes)
BuffersTell ==
  \A h \in Handles : Sliced(h) =>
    \A k \in Blocks(request[h]) \ Outstanding(h) :
      \E m \in Headers : m = HeaderOf(h, k) /\ Tells(m, buffer[h][k])

TellInv == ~Broken => AcksTell /\ StreamsTell /\ TasksTell /\ BuffersTell

\* Nothing is not what a message carries.
LEMMA NothingIsNoBytes == Nothing \notin Bytes
<1>1. \E v : v \notin Bytes
  BY NoSetContainsEverything
<1> QED
  BY <1>1, Zenon DEF Nothing

(***************************************************************************)
(* A message from a device that carries the effect of a fragment shows     *)
(* that it took effect.                                                    *)
(***************************************************************************)
LEMMA EffectAt ==
  ASSUME NEW m \in Headers, NEW v \in Bytes, v = Effects[m.owner][m.m_fragmentIdx]
  PROVE  Tells(m, v)
<1>1. m.owner \in Handles /\ m.m_fragmentIdx \in Nat
  BY DEF Headers
<1>2. v = IF m.m_fragmentIdx \in DOMAIN effect[m.owner]
            THEN effect[m.owner][m.m_fragmentIdx] ELSE Nothing
  BY <1>1 DEF Effects
<1> QED
  BY <1>2, NothingIsNoBytes DEF Tells, Took

\* A reply that tells the effect of its fragment goes on telling it.
LEMMA TellsStays ==
  ASSUME TypeInv, ServeInv, HeaderInv, FrameInv, OnceInv, EffectInv, [Next]_vars
  PROVE  \A m \in Headers : \A v : Tells(m, v) => Tells(m, v)'
BY EffectStays DEF Tells

\* What a fragment did is in the history after the step.
LEMMA EffectAtNext ==
  ASSUME NEW m \in Headers, NEW v, Took(m)', v = effect'[m.owner][m.m_fragmentIdx]
  PROVE  v = Effects'[m.owner][m.m_fragmentIdx]
<1>1. m.owner \in Handles /\ m.m_fragmentIdx \in Nat
  BY DEF Headers
<1> QED
  BY <1>1 DEF Effects, Took

(***************************************************************************)
(* The message before the data of a reply is the header it belongs to.     *)
(***************************************************************************)
LEMMA HeaderBefore ==
  ASSUME TypeInv, HeaderInv, FrameInv, NEW i \in Iots, NEW j \in 1 .. Len(fromIot[i]),
         fromIot[i][j].kind = "data"
  PROVE  /\ Before(fromIot[i], FirstFrom(i), j) \in Headers
         /\ Before(fromIot[i], FirstFrom(i), j).m_type = "READ"
         /\ fromIot[i][j].bytes \in Bytes
<1> DEFINE m == Before(fromIot[i], FirstFrom(i), j)
<1>1. Wants("READ", m) /\ fromIot[i] \in Seq(Messages) /\ fromIot[i][j] \in Messages
  BY ElementOfSeq DEF FrameInv, ReplyFrames, Framed, TypeInv, NetTypes
<1>2. fromIot[i][j].bytes \in Bytes
  BY <1>1 DEF Messages, Headers, DataMessages
<1>3. CASE j > 1
  <2>1. j - 1 \in 1 .. Len(fromIot[i]) /\ m = fromIot[i][j - 1]
    BY <1>1, <1>3 DEF Before
  <2> QED
    BY <1>1, <1>2, <2>1 DEF HeaderInv, ReplyHeaders, WasSent, IsHeader, Wants
<1>4. CASE ~(j > 1)
  <2>1. m = FirstFrom(i)
    BY <1>4 DEF Before
  <2> QED
    BY <1>1, <1>2, <2>1 DEF FirstFrom, Wants, Data, HeaderInv, ReactorHeaders, WasSent, IsHeader
<1> QED
  BY <1>3, <1>4

(***************************************************************************)
(* What the devices sent stays true.                                       *)
(***************************************************************************)
LEMMA CarriesStays ==
  ASSUME TypeInv, ServeInv, HeaderInv, FrameInv, OnceInv, EffectInv, [Next]_vars,
         NEW i \in Iots, Carries(Effects, fromIot[i], FirstFrom(i))
  PROVE  Carries(Effects', fromIot[i], FirstFrom(i))
<1> SUFFICES ASSUME NEW j \in 1 .. Len(fromIot[i]), fromIot[i][j].kind = "data",
                    NEW m, m = Before(fromIot[i], FirstFrom(i), j),
                    NEW v, v = fromIot[i][j].bytes
             PROVE  v = Effects'[m.owner][m.m_fragmentIdx]
  BY DEF Carries
<1>1. m \in Headers /\ m.m_type = "READ" /\ v \in Bytes
  BY HeaderBefore
<1>2. v = Effects[m.owner][m.m_fragmentIdx]
  BY DEF Carries
<1>3. Tells(m, v)'
  BY <1>1, <1>2, EffectAt, TellsStays
<1> QED
  BY <1>1, <1>3, EffectAtNext DEF Tells

(***************************************************************************)
(* The steps that change a device or what it sent.                         *)
(***************************************************************************)
LEMMA WhoSends ==
  ASSUME TypeInv, [Next]_vars
  PROVE  \/ UNCHANGED <<fromIot, iot>> /\ \A i \in Iots : FirstFrom(i)' = FirstFrom(i)
         \/ \E i \in Iots : ManageReplies(i) \/ ManageRepliesData(i) \/ Iot(i) \/ IotFail(i)
<1> USE DEF kernelVars, requestVars, reactorVars, workerVars, slicerVars, netVars, iotVars
<1>1. CASE ManageRequests \/ ReactorReturn \/ ReactorAtEof \/ \E i \in Iots : ManageRepliesEof(i)
  <2>1. UNCHANGED <<fromIot, iot>>
    BY <1>1 DEF ManageRequests, ReactorReturn, ReactorAtEof, ManageRepliesEof
  <2>2. reactor' = reactor \/ (reactor.at # "data" /\ reactor'.at # "data")
    BY <1>1
    DEF ManageRequests, ReactorReturn, ReactorAtEof, ManageRepliesEof, Select, Returning, Spinning
  <2> QED
    BY <2>1, <2>2 DEF FirstFrom
<1>2. ASSUME NEW w \in Workers, Worker(w) PROVE UNCHANGED <<fromIot, iot, reactor>>
  BY <1>2 DEF Worker, Pop, Slice, InsertSlicer, SenderLock, SendHeader, SendData, SendFails,
     Reply, Release
<1>3. CASE (\E h \in Handles, s \in Shapes : KernelSubmit(h, s)) \/ KernelShutdown \/ Stop
  BY <1>3 DEF KernelSubmit, KernelShutdown, Stop, vars, FirstFrom
<1>4. CASE UNCHANGED vars
  BY <1>4 DEF vars, FirstFrom
<1> QED
  BY <1>1, <1>2, <1>3, <1>4 DEF Next, Reactor, FirstFrom

\* Every step keeps the acknowledgements of WRITEs after their effect.
LEMMA AcksKept ==
  ASSUME TypeInv, ServeInv, HeaderInv, FrameInv, OnceInv, EffectInv, AcksTell, ~Broken',
         [Next]_vars
  PROVE  AcksTell'
<1> USE DEF kernelVars, requestVars, reactorVars, workerVars, slicerVars, netVars, iotUnchanged
<1>0. NetTypes /\ DeviceTypes /\ DeviceHeaders
  BY DEF TypeInv, HeaderInv
<1>1. \A m \in Headers : Took(m) => Took(m)'
  BY EffectStays
<1>2. ASSUME \A m \in Headers : m.m_type = "WRITE" /\ (AtAck(m) \/ InFrom(m))' =>
               AtAck(m) \/ InFrom(m) \/ Took(m)'
      PROVE  AcksTell'
  BY <1>1, <1>2 DEF AcksTell
<1>3. CASE UNCHANGED <<fromIot, iot>>
  BY <1>2, <1>3 DEF AtAck, InFrom, Has
<1>4. ASSUME NEW i \in Iots, ManageReplies(i) \/ ManageRepliesData(i) PROVE AcksTell'
  <2>1. iot' = iot /\ (fromIot' = fromIot \/ TookFrom(fromIot, i, fromIot'))
    BY <1>0, <1>4 DEF ManageReplies, ManageRepliesData, iotVars, TookFrom, NetTypes
  <2>2. TookFrom(fromIot, i, fromIot') => \A m : Has(fromIot', m) => Has(fromIot, m)
    <3> HAVE TookFrom(fromIot, i, fromIot')
    <3>1. \A m : m # Head(fromIot[i]) => (Has(fromIot', m) <=> Has(fromIot, m))
      BY TakenIsGone
    <3>2. Has(fromIot, Head(fromIot[i]))
      BY TakenIsGone
    <3> QED
      BY <3>1, <3>2
  <2>3. \A m : InFrom(m)' => InFrom(m)
    BY <2>1, <2>2 DEF InFrom
  <2> QED
    BY <1>2, <2>1, <2>3 DEF AtAck
<1>50. ASSUME NEW i \in Iots, IotFail(i) PROVE AcksTell'
  BY <1>0, <1>50 DEF IotFail, Broken, DeviceTypes
<1>5. ASSUME NEW i \in Iots, IotReadHeader(i) PROVE AcksTell'
  <2>1. fromIot' = fromIot /\ \A d \in Iots : iot'[d].at = "ack" => iot'[d] = iot[d]
    BY <1>0, <1>5 DEF IotReadHeader, IotAt, DeviceTypes
  <2> QED
    BY <1>2, <2>1 DEF AtAck, InFrom
<1>6. ASSUME NEW i \in Iots, IotWrite(i) PROVE AcksTell'
  <2>1. PICK x \in Headers : x = iot[i].header
    BY <1>0, <1>6 DEF IotWrite, DeviceHeaders, IsSent, IsHeader
  <2>2. Record(x, Head(toIot[i]).bytes)
    BY <1>6, <2>1 DEF IotWrite
  <2>3. Took(x)'
    BY <2>2, Recorded DEF EffectInv
  <2>4. fromIot' = fromIot /\ iot'[i].header = x /\ \A d \in Iots : d # i => iot'[d] = iot[d]
    BY <1>0, <1>6, <2>1 DEF IotWrite, IotAt, DeviceTypes
  <2> QED
    BY <1>2, <2>3, <2>4 DEF AtAck, InFrom
<1>7. ASSUME NEW i \in Iots, IotSendHeader(i) PROVE AcksTell'
  <2>1. PICK x \in Headers : x = iot[i].header
    BY <1>0, <1>7 DEF IotSendHeader, DeviceHeaders, WasSent, IsHeader
  <2>2. AddedTo(fromIot, i, x, fromIot')
    BY <1>0, <1>7, <2>1 DEF IotSendHeader, AddedTo, NetTypes, Messages
  <2>3. \A m : InFrom(m)' => InFrom(m) \/ m = x
    BY <2>2, PutIsThere DEF InFrom
  <2>4. x.m_type = "WRITE" => AtAck(x)
    BY <1>0, <1>7, <2>1 DEF IotSendHeader, DeviceHeaders, AtAck
  <2>5. \A d \in Iots : iot'[d].at = "ack" => iot'[d] = iot[d]
    BY <1>0, <1>7 DEF IotSendHeader, IotAt, IotIdle, DeviceTypes
  <2>6. \A m : AtAck(m)' => AtAck(m)
    BY <2>5 DEF AtAck
  <2> QED
    BY <1>2, <2>3, <2>4, <2>6
<1>8. ASSUME NEW i \in Iots, IotSendData(i) PROVE AcksTell'
  <2>1. PICK v : v = storage[i][iot[i].header.m_iotOffset]
    OBVIOUS
  <2>2. v \in Bytes
    BY <1>0, <1>8, <2>1 DEF IotSendData, DeviceHeaders, WasSent, IsHeader, Headers, DeviceTypes
  <2>3. Data(v) \in Messages /\ Data(v) \notin Headers
    BY <2>2 DEF Data, Messages, DataMessages, Headers
  <2>4. AddedTo(fromIot, i, Data(v), fromIot')
    BY <1>0, <1>8, <2>1, <2>3 DEF IotSendData, AddedTo, NetTypes
  <2>5. \A m \in Headers : InFrom(m)' => InFrom(m)
    BY <2>3, <2>4, PutIsThere DEF InFrom
  <2>6. \A d \in Iots : iot'[d].at = "ack" => iot'[d] = iot[d]
    BY <1>0, <1>8 DEF IotSendData, IotIdle, DeviceTypes
  <2> QED
    BY <1>2, <2>5, <2>6 DEF AtAck
<1> QED
  BY <1>3, <1>4, <1>5, <1>50, <1>6, <1>7, <1>8, WhoSends DEF Iot

(***************************************************************************)
(* The message before a stream does not matter if it asks for no data.     *)
(***************************************************************************)
LEMMA ForgetTold ==
  ASSUME NEW s \in Seq(Messages), NEW first, NEW other, NEW value,
         ~Wants("READ", first), ~Wants("READ", other),
         Framed("READ", s, first), Carries(value, s, first)
  PROVE  /\ Carries(value, s, other)
         /\ Wants("READ", LastOf(s, first)) => LastOf(s, other) = LastOf(s, first)
BY ForgetFirst

(***************************************************************************)
(* The reactor takes a message from the stream of device i.                *)
(***************************************************************************)
LEMMA TakeTells ==
  ASSUME TypeInv, ServeInv, HeaderInv, FrameInv, OnceInv, EffectInv, StreamsTell, [Next]_vars,
         NEW i \in Iots, fromIot[i] # <<>>, TookFrom(fromIot, i, fromIot'), iot' = iot,
         \A d \in Iots : d # i => FirstFrom(d)' = FirstFrom(d),
         FirstFrom(i)' = Head(fromIot[i]) \/
           (~Wants("READ", FirstFrom(i)') /\ ~Wants("READ", Head(fromIot[i])))
  PROVE  StreamsTell'
<1>1. \A d \in Iots : fromIot'[d] = IF d = i THEN Tail(fromIot[i]) ELSE fromIot[d]
  BY DEF TookFrom
<1>2. ASSUME NEW d \in Iots, d # i
      PROVE  /\ Carries(Effects', fromIot'[d], FirstFrom(d)')
             /\ iot[d].at = "sendData" => LastOf(fromIot'[d], FirstFrom(d)') = iot[d].header
  BY <1>1, <1>2, CarriesStays DEF StreamsTell
<1>3. PICK s, first, head, other :
        /\ s \in Seq(Messages) /\ s = fromIot[i] /\ first = FirstFrom(i) /\ head = Head(fromIot[i])
        /\ other = FirstFrom(i)'
  BY DEF TypeInv, NetTypes
<1>4. Framed("READ", s, first) /\ Carries(Effects', s, first)
  BY <1>3, CarriesStays DEF FrameInv, ReplyFrames, StreamsTell
<1>5. /\ Framed("READ", Tail(s), head) /\ Carries(Effects', Tail(s), head)
      /\ Tail(s) \in Seq(Messages) /\ LastOf(Tail(s), head) = LastOf(s, first)
  BY <1>3, <1>4, TakeFront
<1>6. iot[i].at = "sendData" => LastOf(s, first) = iot[i].header /\ Wants("READ", LastOf(s, first))
  BY <1>3 DEF StreamsTell, FrameInv, ReplyFrames, Closed
<1>7. /\ Carries(Effects', Tail(s), other)
      /\ iot[i].at = "sendData" => LastOf(Tail(s), other) = iot[i].header
  <2>1. CASE other = head
    BY <1>5, <1>6, <2>1
  <2>2. CASE other # head
    <3>1. ~Wants("READ", head) /\ ~Wants("READ", other)
      BY <1>3, <2>2
    <3>2. /\ Carries(Effects', Tail(s), other)
          /\ Wants("READ", LastOf(Tail(s), head)) => LastOf(Tail(s), other) = LastOf(Tail(s), head)
      <4>1. PICK tail \in Seq(Messages) : tail = Tail(s)
        BY <1>5
      <4>2. PICK value : value = Effects'
        OBVIOUS
      <4>3. Framed("READ", tail, head) /\ Carries(value, tail, head)
        BY <1>5, <4>1, <4>2
      <4>4. /\ Carries(value, tail, other)
            /\ Wants("READ", LastOf(tail, head)) => LastOf(tail, other) = LastOf(tail, head)
        BY <3>1, <4>3, ForgetTold
      <4> QED
        BY <4>1, <4>2, <4>4
    <3> QED
      BY <1>5, <1>6, <3>2
  <2> QED
    BY <2>1, <2>2
<1> QED
  BY <1>1, <1>2, <1>3, <1>7 DEF StreamsTell

(***************************************************************************)
(* Device i puts a message m on its stream.                                *)
(***************************************************************************)
LEMMA PutTells ==
  ASSUME TypeInv, ServeInv, HeaderInv, FrameInv, OnceInv, EffectInv, StreamsTell, [Next]_vars,
         NEW i \in Iots, NEW m, AddedTo(fromIot, i, m, fromIot'),
         \A d \in Iots : FirstFrom(d)' = FirstFrom(d) /\ (d # i => iot'[d] = iot[d]),
         m.kind = "data" <=> Wants("READ", LastOf(fromIot[i], FirstFrom(i))),
         m.kind = "data" => \E x : /\ x = LastOf(fromIot[i], FirstFrom(i))
                                   /\ m.bytes = Effects'[x.owner][x.m_fragmentIdx],
         iot'[i].at = "sendData" => iot'[i].header = m
  PROVE  StreamsTell'
<1>1. /\ m \in Messages
      /\ \A d \in Iots : fromIot'[d] = IF d = i THEN Append(fromIot[i], m) ELSE fromIot[d]
  BY DEF AddedTo
<1>2. ASSUME NEW d \in Iots, d # i
      PROVE  /\ Carries(Effects', fromIot'[d], FirstFrom(d)')
             /\ iot'[d].at = "sendData" => LastOf(fromIot'[d], FirstFrom(d)') = iot'[d].header
  BY <1>1, <1>2, CarriesStays DEF StreamsTell
<1>3. PICK s, first : s \in Seq(Messages) /\ s = fromIot[i] /\ first = FirstFrom(i)
  BY DEF TypeInv, NetTypes
<1>4. Framed("READ", s, first) /\ Carries(Effects', s, first)
  BY <1>3, CarriesStays DEF FrameInv, ReplyFrames, StreamsTell
<1>5. Carries(Effects', Append(s, m), first) /\ LastOf(Append(s, m), first) = m
  BY <1>1, <1>3, <1>4, PutEnd
<1> QED
  BY <1>1, <1>2, <1>3, <1>5 DEF StreamsTell

\* Every step keeps the data on its way back that of the effects.
LEMMA StreamsKept ==
  ASSUME TypeInv, ServeInv, HeaderInv, FrameInv, OnceInv, EffectInv, StreamsTell, ~Broken',
         [Next]_vars
  PROVE  StreamsTell'
<1> USE DEF iotVars, iotUnchanged, reactorVars
<1>0. NetTypes /\ DeviceTypes /\ DeviceHeaders /\ ReplyFrames
  BY DEF TypeInv, HeaderInv, FrameInv
<1>1. ASSUME fromIot' = fromIot, \A i \in Iots : FirstFrom(i)' = FirstFrom(i),
             \A i \in Iots : iot'[i].at = "sendData" => iot'[i] = iot[i]
      PROVE  StreamsTell'
  BY <1>1, CarriesStays DEF StreamsTell
<1>2. CASE UNCHANGED <<fromIot, iot>> /\ \A i \in Iots : FirstFrom(i)' = FirstFrom(i)
  BY <1>1, <1>2
<1>3. ASSUME NEW i \in Iots, ManageReplies(i) PROVE StreamsTell'
  <2>1. fromIot[i] # <<>> /\ TookFrom(fromIot, i, fromIot') /\ iot' = iot
    BY <1>0, <1>3 DEF ManageReplies, TookFrom, NetTypes
  <2>2. \A d \in Iots : d # i => FirstFrom(d)' = FirstFrom(d)
    BY <1>3 DEF ManageReplies, FirstFrom, Select, ReadingData
  <2>3. CASE Head(fromIot[i]).m_type = "READ"
    <3>1. FirstFrom(i)' = Head(fromIot[i])
      BY <1>3, <2>3 DEF ManageReplies, ReadingData, FirstFrom
    <3> QED
      BY <2>1, <2>2, <3>1, TakeTells
  <2>4. CASE Head(fromIot[i]).m_type # "READ"
    <3>1. FirstFrom(i)' = Data(Zero)
      BY <1>3, <2>4 DEF ManageReplies, Select, FirstFrom, Data
    <3>2. ~Wants("READ", FirstFrom(i)') /\ ~Wants("READ", Head(fromIot[i]))
      BY <2>4, <3>1 DEF Wants, Data
    <3> QED
      BY <2>1, <2>2, <3>2, TakeTells
  <2> QED
    BY <2>3, <2>4
<1>4. ASSUME NEW i \in Iots, ManageRepliesData(i) PROVE StreamsTell'
  <2>0. ~AtEof(i)
    BY BrokenStays DEF AtEof, Broken
  <2>1. fromIot[i] # <<>> /\ TookFrom(fromIot, i, fromIot') /\ iot' = iot
    BY <1>0, <1>4, <2>0 DEF ManageRepliesData, TookFrom, NetTypes
  <2>2. \A d \in Iots : d # i => FirstFrom(d)' = FirstFrom(d)
    BY <1>4 DEF ManageRepliesData, FirstFrom, Select
  <2>3. Head(fromIot[i]) \in DataMessages /\ FirstFrom(i)' = Data(Zero)
    BY <1>4, <2>1, FrontOfReplies DEF ManageRepliesData, Select, FirstFrom, Data
  <2>4. ~Wants("READ", FirstFrom(i)') /\ ~Wants("READ", Head(fromIot[i]))
    BY <2>3 DEF Wants, Data, DataMessages
  <2> QED
    BY <2>1, <2>2, <2>4, TakeTells
<1>50. ASSUME NEW i \in Iots, IotFail(i) PROVE StreamsTell'
  BY <1>0, <1>50 DEF IotFail, Broken, DeviceTypes
<1>5. ASSUME NEW i \in Iots, IotReadHeader(i) \/ IotWrite(i) PROVE StreamsTell'
  <2>1. fromIot' = fromIot /\ \A d \in Iots : FirstFrom(d)' = FirstFrom(d)
    BY <1>5 DEF IotReadHeader, IotWrite, FirstFrom
  <2>2. \A d \in Iots : iot'[d].at = "sendData" => iot'[d] = iot[d]
    BY <1>0, <1>5 DEF IotReadHeader, IotWrite, IotAt, DeviceTypes
  <2> QED
    BY <1>1, <2>1, <2>2
<1>6. ASSUME NEW i \in Iots, IotSendHeader(i) PROVE StreamsTell'
  <2>1. PICK x \in Headers : x = iot[i].header
    BY <1>0, <1>6 DEF IotSendHeader, DeviceHeaders, WasSent, IsHeader
  <2>2. AddedTo(fromIot, i, x, fromIot')
    BY <1>0, <1>6, <2>1 DEF IotSendHeader, AddedTo, NetTypes, Messages
  <2>3. \A d \in Iots : FirstFrom(d)' = FirstFrom(d) /\ (d # i => iot'[d] = iot[d])
    BY <1>0, <1>6 DEF IotSendHeader, FirstFrom, DeviceTypes
  <2>4. x.kind = "header" /\ ~Wants("READ", LastOf(fromIot[i], FirstFrom(i)))
    BY <1>0, <1>6 DEF IotSendHeader, ReplyFrames, Headers, Closed
  <2>5. iot'[i].at = "sendData" => iot'[i].header = x
    BY <1>0, <1>6, <2>1 DEF IotSendHeader, IotAt, IotIdle, DeviceTypes
  <2> QED
    BY <2>2, <2>3, <2>4, <2>5, PutTells
<1>7. ASSUME NEW i \in Iots, IotSendData(i) PROVE StreamsTell'
  <2>1. PICK x \in Headers : x = iot[i].header
    BY <1>0, <1>7 DEF IotSendData, DeviceHeaders, WasSent, IsHeader
  <2>2. PICK v \in Bytes : v = storage[i][x.m_iotOffset]
    BY <2>1 , <1>0 DEF DeviceTypes, Headers
  <2>3. Data(v) \in Messages /\ Data(v).kind = "data" /\ Data(v).bytes = v
    BY DEF Data, Messages, DataMessages
  <2>4. AddedTo(fromIot, i, Data(v), fromIot') /\ Record(x, v)
    BY <1>0, <1>7, <2>1, <2>2, <2>3 DEF IotSendData, AddedTo, NetTypes
  <2>5. \A d \in Iots : FirstFrom(d)' = FirstFrom(d) /\ (d # i => iot'[d] = iot[d])
    BY <1>0, <1>7 DEF IotSendData, FirstFrom, DeviceTypes
  <2>6. /\ Wants("READ", LastOf(fromIot[i], FirstFrom(i)))
        /\ x = LastOf(fromIot[i], FirstFrom(i))
    BY <1>0, <1>7, <2>1 DEF IotSendData, ReplyFrames, Closed, StreamsTell
  <2>7. Took(x)' /\ v = effect'[x.owner][x.m_fragmentIdx]
    BY <2>4, Recorded DEF EffectInv
  <2>8. v = Effects'[x.owner][x.m_fragmentIdx]
    BY <2>7, EffectAtNext
  <2>9. iot'[i].at # "sendData"
    BY <1>0, <1>7 DEF IotSendData, IotIdle, DeviceTypes
  <2> QED
    BY <2>3, <2>4, <2>5, <2>6, <2>8, <2>9, PutTells
<1> QED
  BY <1>2, <1>3, <1>4, <1>5, <1>50, <1>6, <1>7, WhoSends DEF Iot

(***************************************************************************)
(* The steps that make a reply task or take one up, and those that write   *)
(* to the buffer of a request that was sliced.                             *)
(***************************************************************************)
QuietTasks ==
  /\ \A t \in tasks' : t.kind = "reply" => t \in tasks
  /\ \A v \in Workers : pc'[v] = "reply" => pc[v] = "reply" /\ task'[v] = task[v]
QuietBuffers == \A h \in Handles : Sliced(h) => buffer'[h] = buffer[h]

\* The steps that make reply tasks, and the one that fills buffers.
LEMMA WhoReplies ==
  ASSUME TypeInv, ServeInv, [Next]_vars
  PROVE  /\ \/ QuietTasks
            \/ \E i \in Iots : ManageReplies(i) \/ ManageRepliesData(i) \/ ManageRepliesEof(i)
            \/ \E w \in Workers : Pop(w)
         /\ QuietBuffers \/ \E w \in Workers : Reply(w)
<1> USE DEF kernelVars, requestVars, reactorVars, workerVars, slicerVars, netVars, iotVars,
            iotUnchanged
<1>0. TaskTypes /\ WorkerTypes
  BY DEF TypeInv
<1>1. CASE UNCHANGED <<tasks, pc, task, buffer>>
  BY <1>1 DEF QuietTasks, QuietBuffers
<1>2. CASE ReactorReturn \/ ReactorAtEof
  BY <1>1, <1>2 DEF ReactorReturn, ReactorAtEof
<1>3. CASE ManageRequests
  <2>1. QuietTasks
    BY <1>3 DEF ManageRequests, QuietTasks, RequestTask
  <2>2. Head(nbdSocket) \in Handles /\ ~Sliced(Head(nbdSocket))
    <3>1. Head(nbdSocket) \in Handles /\ InNbd(Head(nbdSocket))
      BY <1>3, TakeOne DEF ManageRequests, InNbd, TypeInv, KernelTypes
    <3> QED
      BY <3>1 DEF ServeInv, SocketOK, Unserved
  <2>3. PICK b : buffer' = [buffer EXCEPT ![Head(nbdSocket)] = b]
    BY <1>3 DEF ManageRequests
  <2>4. QuietBuffers
    BY <2>2, <2>3 DEF QuietBuffers, ServeInv, BuffersOK
  <2> QED
    BY <2>1, <2>4
<1>4. ASSUME NEW i \in Iots, ManageReplies(i) \/ ManageRepliesData(i) \/ ManageRepliesEof(i)
      PROVE  UNCHANGED buffer
  BY <1>4 DEF ManageReplies, ManageRepliesData, ManageRepliesEof
<1>5. ASSUME NEW w \in Workers, Worker(w), ~Pop(w) PROVE QuietTasks
  <2>1. tasks' = tasks /\ (task' = task \/ Release(w))
    BY <1>5 DEF Worker, Slice, InsertSlicer, SenderLock, SendHeader, SendData, SendFails, Reply,
       Release
  <2>2. CASE SendFails(w)
    BY <2>2 DEF SendFails, QuietTasks
  <2>3. CASE ~SendFails(w)
    <3>1. pc' = pc \/ \E where \in PCs \ {"reply"} : GoTo(w, where)
      BY <1>5, <2>3
      DEF Worker, Slice, InsertSlicer, SenderLock, SendHeader, SendData, Reply, Release,
          NextFragment, PCs
    <3>2. \A v \in Workers : pc'[v] = "reply" => pc[v] = "reply" /\ (pc' = pc \/ v # w)
      BY <1>0, <3>1 DEF GoTo, WorkerTypes
    <3>3. \A v \in Workers : pc'[v] = "reply" => task'[v] = task[v]
      <4>1. CASE task' = task
        BY <4>1
      <4>2. CASE Release(w)
        BY <1>0, <4>2 DEF Release, GoTo, WorkerTypes, TaskTypes
      <4> QED
        BY <2>1, <4>1, <4>2
    <3> QED
      BY <2>1, <3>2, <3>3 DEF QuietTasks
  <2> QED
    BY <2>2, <2>3
<1>6. ASSUME NEW w \in Workers, Worker(w), ~Reply(w) PROVE UNCHANGED buffer
  BY <1>6 DEF Worker, Pop, Slice, InsertSlicer, SenderLock, SendHeader, SendData, SendFails,
     Release
<1>7. ASSUME NEW i \in Iots, Iot(i) \/ IotFail(i) PROVE UNCHANGED <<tasks, pc, task, buffer>>
  BY <1>7 DEF Iot, IotReadHeader, IotWrite, IotSendHeader, IotSendData, IotFail
<1>8. CASE (\E h \in Handles, s \in Shapes : KernelSubmit(h, s)) \/ KernelShutdown \/ Stop
  BY <1>1, <1>8 DEF KernelSubmit, KernelShutdown, Stop, vars
<1>9. CASE UNCHANGED vars
  BY <1>1, <1>9 DEF vars
<1>10. ASSUME UNCHANGED buffer PROVE QuietBuffers
  BY <1>10 DEF QuietBuffers
<1> QED
  BY <1>1, <1>2, <1>3, <1>4, <1>5, <1>6, <1>7, <1>8, <1>9, <1>10 DEF Next, Reactor

\* Every step keeps the reply tasks true to the effects.
LEMMA TasksTellKept ==
  ASSUME TypeInv, ServeInv, HeaderInv, FrameInv, OnceInv, EffectInv, AcksTell, StreamsTell,
         TasksTell, ~Broken', [Next]_vars
  PROVE  TasksTell'
<1>0. TaskTypes /\ WorkerTypes /\ NetTypes
  BY DEF TypeInv
<1>1. \A m \in Headers : \A v : Tells(m, v) => Tells(m, v)'
  BY TellsStays
<1>2. ASSUME NEW x \in Headers, NEW v, Tells(x, v),
             \A t \in ReplyTasks : Replies(t)' => Replies(t) \/ t = ReplyTask(x, v)
      PROVE  TasksTell'
  <2>1. ReplyTask(x, v).header = x /\ ReplyTask(x, v).bytes = v
    BY DEF ReplyTask
  <2>2. ASSUME NEW t \in ReplyTasks, Replies(t)', t.header \in Headers
        PROVE  Tells(t.header, t.bytes)
    BY <1>2, <2>1, <2>2 DEF TasksTell
  <2> QED
    BY <1>1, <2>2 DEF TasksTell
<1>3. ASSUME \A t \in ReplyTasks : Replies(t)' => Replies(t) PROVE TasksTell'
  <2>1. ASSUME NEW t \in ReplyTasks, Replies(t)', t.header \in Headers
        PROVE  Tells(t.header, t.bytes)
    BY <1>3, <2>1 DEF TasksTell
  <2> QED
    BY <1>1, <2>1 DEF TasksTell
<1>4. CASE QuietTasks
  <2>1. \A t \in ReplyTasks : t.kind = "reply"
    BY DEF ReplyTasks
  <2>2. \A t \in ReplyTasks : Replies(t)' => Replies(t)
    BY <1>4, <2>1 DEF QuietTasks, Replies
  <2> QED
    BY <1>3, <2>2
<1>5. ASSUME NEW i \in Iots, ManageReplies(i) PROVE TasksTell'
  <2>1. PICK x \in Headers : x = Head(fromIot[i])
    BY <1>5, FrontOfReplies DEF ManageReplies
  <2>2. UNCHANGED <<pc, task>>
    BY <1>5 DEF ManageReplies, workerVars
  <2>3. CASE x.m_type = "READ"
    BY <1>3, <1>5, <2>1, <2>2, <2>3 DEF ManageReplies, Replies
  <2>4. CASE x.m_type # "READ"
    <3>1. tasks' = tasks \cup {ReplyTask(x, Junk)}
      BY <1>5, <2>1, <2>4 DEF ManageReplies
    <3>2. InFrom(x)
      <4>1. TookFrom(fromIot, i, fromIot')
        BY <1>0, <1>5 DEF ManageReplies, TookFrom, NetTypes
      <4> QED
        BY <2>1, <4>1, TakenIsGone DEF InFrom
    <3>3. x.m_type = "WRITE"
      BY <2>4 DEF Headers
    <3>4. Tells(x, Junk)
      BY <2>4, <3>2, <3>3 DEF AcksTell, Tells
    <3>5. \A t \in ReplyTasks : Replies(t)' => Replies(t) \/ t = ReplyTask(x, Junk)
      BY <2>2, <3>1 DEF Replies
    <3> QED
      BY <1>2, <3>4, <3>5
  <2> QED
    BY <2>3, <2>4
<1>6. ASSUME NEW i \in Iots, ManageRepliesData(i) PROVE TasksTell'
  <2>1. ~AtEof(i)
    BY BrokenStays DEF AtEof, Broken
  <2>2. PICK x \in Headers : x = reactor.header
    BY <1>6 DEF ManageRepliesData, HeaderInv, ReactorHeaders, WasSent, IsHeader
  <2>3. PICK v \in Bytes : v = Head(fromIot[i]).bytes /\ Head(fromIot[i]).kind = "data"
    BY <1>6, <2>1, FrontOfReplies DEF ManageRepliesData, DataMessages
  <2>4. tasks' = tasks \cup {ReplyTask(x, v)} /\ UNCHANGED <<pc, task>> /\ FirstFrom(i) = x
    BY <1>6, <2>1, <2>2, <2>3 DEF ManageRepliesData, workerVars, FirstFrom
  <2>5. v = Effects[x.owner][x.m_fragmentIdx]
    <3>1. /\ fromIot[i] \in Seq(Messages) /\ fromIot[i] # <<>>
          /\ Framed("READ", fromIot[i], FirstFrom(i)) /\ Carries(Effects, fromIot[i], FirstFrom(i))
      BY <1>0, <1>6, <2>1
      DEF ManageRepliesData, NetTypes, FrameInv, ReplyFrames, StreamsTell
    <3>2. PICK s, e : s \in Seq(Messages) /\ s = fromIot[i] /\ e = Effects
      BY <3>1
    <3>3. s \in Seq(Messages) /\ Framed("READ", s, x) /\ Carries(e, s, x) /\ s # <<>>
      BY <2>4, <3>1, <3>2
    <3>4. Head(s).kind = "data" => Head(s).bytes = e[x.owner][x.m_fragmentIdx]
      BY <3>3, TakeFront
    <3> QED
      BY <2>3, <3>2, <3>4
  <2>6. Tells(x, v)
    BY <2>5, EffectAt
  <2>7. \A t \in ReplyTasks : Replies(t)' => Replies(t) \/ t = ReplyTask(x, v)
    BY <2>4 DEF Replies
  <2> QED
    BY <1>2, <2>6, <2>7
<1>7. ASSUME NEW i \in Iots, ManageRepliesEof(i) PROVE FALSE
  BY <1>7, BrokenStays DEF ManageRepliesEof, AtEof, Broken
<1>8. ASSUME NEW w \in Workers, Pop(w) PROVE TasksTell'
  <2>1. PICK t \in tasks : /\ tasks' = tasks \ {t} /\ task' = [task EXCEPT ![w] = t]
                           /\ IF t.kind = "request" THEN GoTo(w, "slice") ELSE GoTo(w, "reply")
    BY <1>8 DEF Pop
  <2>2. \A v \in Workers : pc'[v] = "reply" =>
          (v = w /\ task'[v] = t) \/ (pc[v] = "reply" /\ task'[v] = task[v])
    BY <1>0, <2>1 DEF GoTo, WorkerTypes, TaskTypes
  <2>3. \A s \in ReplyTasks : Replies(s)' => Replies(s)
    BY <2>1, <2>2 DEF Replies
  <2> QED
    BY <1>3, <2>3
<1> QED
  BY <1>4, <1>5, <1>6, <1>7, <1>8, WhoReplies

\* Every step keeps the buffers true to the effects replied.
LEMMA BuffersTellKept ==
  ASSUME TypeInv, ServeInv, UidInv, HeaderInv, FrameInv, OnceInv, UniqueInv, SlicerInv,
         EffectInv, TasksTell, BuffersTell, ~Broken', [Next]_vars
  PROVE  BuffersTell'
<1> SUFFICES ASSUME NEW h \in Handles, Sliced(h)', NEW k, k \in Blocks(request[h])',
                    k \notin Outstanding(h)'
             PROVE  \E m \in Headers : HeaderOf(h, k)' = m /\ Tells(m, buffer[h][k])'
  BY DEF BuffersTell
<1>1. ~Broken
  BY BrokenStays
<1>2. CASE ~Sliced(h)
  BY <1>2, FreshSlicer, SliceCounts
<1>3. CASE Sliced(h)
  <2>1. PICK m \in Headers : /\ m = HeaderOf(h, k) /\ HeaderOf(h, k)' = m /\
                                  k \in Blocks(request[h])
                             /\ m.owner = h /\ m.m_fragmentIdx = k
    BY <1>3, FragmentStays
  <2>2. ASSUME k \notin Outstanding(h), buffer'[h][k] = buffer[h][k]
        PROVE  Tells(m, buffer[h][k])'
    <3>1. PICK v : v = buffer[h][k]
      OBVIOUS
    <3>2. Tells(m, v)
      BY <1>3, <2>1, <2>2, <3>1 DEF BuffersTell
    <3>3. Tells(m, v)'
      BY <3>2, TellsStays
    <3> QED
      BY <2>2, <3>1, <3>3 DEF Tells, Took
  <2>3. ASSUME NEW w \in Workers, Reply(w) PROVE Tells(m, buffer[h][k])'
    <3>1. PICK x, v : x = task[w].header /\ v = task[w].bytes
      OBVIOUS
    <3>2. m_slicerMap[x.m_requestUid] # Nobody /\ pc[w] = "reply"
      BY <1>1, <2>3, <3>1, ReplyFinds DEF Reply
    <3>3. /\ IsHeader(x) /\ WasSent(x) /\ x \in Headers /\ x.owner \in Handles
          /\ \/ Strays(x.m_requestUid, {x.m_fragmentIdx})
             \/ \E g \in Handles : Finds(w, x.m_requestUid, {x.m_fragmentIdx}, g)
      BY <1>1, <2>3, <3>1, NoneMadeUp, SentReply DEF WasSent, IsHeader, Headers
    <3>4. /\ m_slicerMap[x.m_requestUid] = x.owner
          /\ x.m_fragmentIdx \in Blocks(request[x.owner])
      BY <3>2, <3>3, FoundSlicer DEF IsHeader, ServeInv, BuffersOK, HasBuffer
    <3>5. CopyFragment(x.owner, {x.m_fragmentIdx}, v)
      BY <3>1, <3>2, <3>3, <3>4, Zenon DEF Strays, Finds
    <3>6. Outstanding(h)' = IF h = x.owner THEN Outstanding(h) \ {x.m_fragmentIdx}
                            ELSE Outstanding(h)
      BY <1>1, <1>3, <2>3, <3>1, ReplyCounts
    <3>7. buffer = [g \in Handles |-> buffer[g]] /\ buffer[h] \in [Blocks(request[h]) -> Bytes]
      BY <1>3 DEF ServeInv, BuffersOK, HasBuffer
    <3>8. CASE h = x.owner /\ k = x.m_fragmentIdx
      <4>1. buffer'[h][k] = v
        BY <2>1, <3>5, <3>7, <3>8 DEF CopyFragment
      <4>2. m = x
        BY <2>1, <3>3, <3>8 DEF IsHeader
      <4>3. Tells(m, v)
        <5>1. task[w] \in ReplyTasks /\ Replies(task[w])
          BY <3>2 DEF ServeInv, WorkersOK, Replies
        <5> QED
          BY <3>1, <3>3, <4>2, <5>1 DEF TasksTell
      <4>4. Tells(m, v)'
        BY <4>3, TellsStays
      <4> QED
        BY <4>1, <4>4 DEF Tells, Took
    <3>9. CASE ~(h = x.owner /\ k = x.m_fragmentIdx)
      <4>1. buffer'[h][k] = buffer[h][k]
        BY <2>1, <3>5, <3>7, <3>9 DEF CopyFragment
      <4>2. k \notin Outstanding(h)
        BY <3>6, <3>9
      <4> QED
        BY <2>2, <4>1, <4>2
    <3> QED
      BY <3>8, <3>9
  <2>4. CASE ~ \E w \in Workers : Reply(w)
    <3>1. Outstanding(h)' = Outstanding(h)
      BY <1>3, <2>4, AwaitsKept DEF Awaits
    <3>2. buffer'[h] = buffer[h]
      BY <1>3, <2>4, WhoReplies DEF QuietBuffers
    <3> QED
      BY <2>1, <2>2, <3>1, <3>2
  <2> QED
    BY <2>1, <2>3, <2>4
<1> QED
  BY <1>2, <1>3

\* Every step keeps the replies true while the devices are up.
LEMMA TellKept ==
  ASSUME TypeInv, ServeInv, UidInv, HeaderInv, FrameInv, OnceInv, UniqueInv, SlicerInv,
         EffectInv, TellInv, [Next]_vars
  PROVE  TellInv'
<1> SUFFICES ASSUME ~Broken' PROVE AcksTell' /\ StreamsTell' /\ TasksTell' /\ BuffersTell'
  BY DEF TellInv
<1>1. AcksTell /\ StreamsTell /\ TasksTell /\ BuffersTell
  BY BrokenStays DEF TellInv
<1>2. AcksTell' /\ StreamsTell'
  BY <1>1, AcksKept, StreamsKept
<1>3. TasksTell' /\ BuffersTell'
  BY <1>1, TasksTellKept, BuffersTellKept
<1> QED
  BY <1>2, <1>3

-----------------------------------------------------------------------------
(***************************************************************************)
(* As many requests were sliced as the counter says.                       *)
(***************************************************************************)
Cut == {h \in Handles : Sliced(h)}
CounterInv == IsFiniteSet(Cut) /\ request_counter = Cardinality(Cut)

(***************************************************************************)
(* Slice counts the request it cuts.                                       *)
(***************************************************************************)
LEMMA CounterKept ==
  ASSUME TypeInv, ServeInv, CounterInv, [Next]_vars
  PROVE  CounterInv'
<1> USE DEF kernelVars, requestVars, reactorVars, workerVars, slicerVars, netVars, iotVars,
            iotUnchanged
<1>1. ASSUME NEW h \in Handles, NEW s \in Shapes, KernelSubmit(h, s) PROVE CounterInv'
  BY <1>1 DEF KernelSubmit, CounterInv, Cut, Sliced
<1>2. CASE KernelShutdown
  BY <1>2 DEF KernelShutdown, CounterInv, Cut, Sliced
<1>3. CASE ManageRequests
  BY <1>3 DEF ManageRequests, CounterInv, Cut, Sliced
<1>4. CASE ReactorReturn
  BY <1>4 DEF ReactorReturn, CounterInv, Cut, Sliced
<1>5. CASE ReactorAtEof
  BY <1>5 DEF ReactorAtEof, CounterInv, Cut, Sliced
<1>6. ASSUME NEW i \in Iots, ManageReplies(i) PROVE CounterInv'
  BY <1>6 DEF ManageReplies, CounterInv, Cut, Sliced
<1>7. ASSUME NEW i \in Iots, ManageRepliesData(i) PROVE CounterInv'
  BY <1>7 DEF ManageRepliesData, CounterInv, Cut, Sliced
<1>8. ASSUME NEW i \in Iots, ManageRepliesEof(i) PROVE CounterInv'
  BY <1>8 DEF ManageRepliesEof, CounterInv, Cut, Sliced
<1>9. ASSUME NEW w \in Workers, Pop(w) PROVE CounterInv'
  BY <1>9 DEF Pop, CounterInv, Cut, Sliced
<1>10. ASSUME NEW w \in Workers, Slice(w) PROVE CounterInv'
  <2>1. held[w] \in Handles /\ ~Sliced(held[w])
    BY <1>10 DEF Slice, ServeInv, WorkersOK, Serves
  <2>2. request_counter % UidSpace # Unset
    BY Division, UidSpaceAssumption, NamesAssumption DEF TypeInv, SlicerTypes
  <2>3. Cut' = Cut \cup {held[w]}
    <3> DEFINE u == request_counter % UidSpace
    <3>1. u # Unset
      BY <2>2
    <3>2. m_requestUid' = [m_requestUid EXCEPT ![held[w]] = u]
      BY <1>10 DEF Slice
    <3> HIDE DEF u
    <3> QED
      BY <2>1, <3>1, <3>2 DEF Cut, Sliced, TypeInv, SlicerTypes
  <2>4. held[w] \notin Cut /\ request_counter' = request_counter + 1
    BY <1>10, <2>1 DEF Slice, Cut
  <2> HIDE DEF kernelVars, requestVars
  <2> QED
    BY <2>3, <2>4, FS_AddElement DEF CounterInv
<1>11. ASSUME NEW w \in Workers, InsertSlicer(w) PROVE CounterInv'
  BY <1>11 DEF InsertSlicer, CounterInv, Cut, Sliced
<1>12. ASSUME NEW w \in Workers, SenderLock(w) PROVE CounterInv'
  BY <1>12 DEF SenderLock, CounterInv, Cut, Sliced
<1>13. ASSUME NEW w \in Workers, SendHeader(w) PROVE CounterInv'
  BY <1>13 DEF SendHeader, CounterInv, Cut, Sliced
<1>14. ASSUME NEW w \in Workers, SendData(w) PROVE CounterInv'
  BY <1>14 DEF SendData, CounterInv, Cut, Sliced
<1>15. ASSUME NEW w \in Workers, SendFails(w) PROVE CounterInv'
  BY <1>15 DEF SendFails, CounterInv, Cut, Sliced
<1>16. ASSUME NEW w \in Workers, Reply(w) PROVE CounterInv'
  BY <1>16 DEF Reply, CounterInv, Cut, Sliced
<1>17. ASSUME NEW w \in Workers, Release(w) PROVE CounterInv'
  BY <1>17 DEF Release, CounterInv, Cut, Sliced
<1>18. ASSUME NEW i \in Iots, IotReadHeader(i) PROVE CounterInv'
  BY <1>18 DEF IotReadHeader, CounterInv, Cut, Sliced
<1>19. ASSUME NEW i \in Iots, IotWrite(i) PROVE CounterInv'
  BY <1>19 DEF IotWrite, CounterInv, Cut, Sliced
<1>20. ASSUME NEW i \in Iots, IotSendHeader(i) PROVE CounterInv'
  BY <1>20 DEF IotSendHeader, CounterInv, Cut, Sliced
<1>21. ASSUME NEW i \in Iots, IotSendData(i) PROVE CounterInv'
  BY <1>21 DEF IotSendData, CounterInv, Cut, Sliced
<1>22. ASSUME NEW i \in Iots, IotFail(i) PROVE CounterInv'
  BY <1>22 DEF IotFail, CounterInv, Cut, Sliced
<1>23. CASE UNCHANGED vars
  BY <1>23 DEF vars, CounterInv, Cut, Sliced
<1> QED
  BY <1>1, <1>2, <1>3, <1>4, <1>5, <1>6, <1>7, <1>8, <1>9, <1>10, <1>11, <1>12, <1>13,
     <1>14, <1>15, <1>16, <1>17, <1>18, <1>19, <1>20, <1>21, <1>22, <1>23
  DEF Next, Reactor, Worker, Iot, Stop

(***************************************************************************)
(* The inductive invariant.                                                *)
(***************************************************************************)
Inv ==
  /\ TypeInv /\ ServeInv /\ UidInv /\ HeaderInv /\ FrameInv /\ OnceInv /\ BufferInv
  /\ UniqueInv /\ SlicerInv /\ NoNullSlicer /\ EffectInv /\ RefInv /\ TellInv
  /\ CounterInv

\* The invariant holds at the start,
LEMMA InitInv == Init => Inv
<1> SUFFICES ASSUME Init PROVE Inv
  OBVIOUS
<1> USE DEF Init
<1>1. Len(<<>>) = 0 /\ \A S : <<>> \in Seq(S)
  BY EmptySeq
<1>2. TypeInv
  <2>1. KernelTypes /\ TaskTypes /\ WorkerTypes /\ SlicerTypes
    BY <1>1 DEF KernelTypes, TaskTypes, WorkerTypes, SlicerTypes, Uids, PCs
  <2>2. ReactorTypes /\ NetTypes /\ DeviceTypes
    BY <1>1, BoundsAssumption, SocketCapAssumption
    DEF ReactorTypes, NetTypes, DeviceTypes, Reactors, IotStates, Bytes
  <2> QED
    BY <2>1, <2>2 DEF TypeInv
<1>3. \A w \in Workers : ~Serves(w) /\ ~Sends(w) /\ pc[w] = "pop"
  BY DEF Serves, Sends
<1>4. \A h \in Handles : ~Sliced(h) /\ ~InNbd(h)
  BY <1>1 DEF Sliced, InNbd
<1>5. ServeInv
  BY <1>1, <1>3, <1>4 DEF ServeInv, WorkersOK, OneServer, TasksOK, SocketOK, BuffersOK
<1>6. UidInv
  BY <1>3, <1>4 DEF UidInv, Uids
<1>7. /\ Select.at = "select" /\ IotIdle.at = "header" /\ IotIdle # Closed
      /\ Data(Zero).kind = "data"
  BY DEF Select, IotIdle, Closed, Data
<1>8. HeaderInv
  BY <1>1, <1>3, <1>7
  DEF HeaderInv, RequestHeaders, ReplyHeaders, DeviceHeaders, ReactorHeaders, TaskHeaders
<1>9. FrameInv
  <2>1. \A i \in Iots : /\ FirstTo(i) = Data(Zero) /\ FirstFrom(i) = Data(Zero)
                        /\ toIot[i] = <<>> /\ fromIot[i] = <<>> /\ iot[i] = IotIdle
    BY <1>7 DEF FirstTo, FirstFrom
  <2>2. \A type : ~Wants(type, LastOf(<<>>, Data(Zero)))
    BY <1>7 DEF Wants, LastOf
  <2>3. \A type, first, value : Framed(type, <<>>, first) /\ Carries(value, <<>>, first)
    BY <1>1 DEF Framed, Carries
  <2>4. RequestFrames /\ ReplyFrames
    BY <1>7, <2>1, <2>2, <2>3 DEF RequestFrames, ReplyFrames
  <2> QED
    BY <1>3, <2>4 DEF FrameInv, SendersOK
<1>10. OnceInv /\ BufferInv
  BY <1>1, <1>3, <1>7 DEF OnceInv, BufferInv
<1>11. CounterInv
  <2>1. Cut = {}
    BY <1>4 DEF Cut
  <2> QED
    BY <2>1, FS_EmptySet DEF CounterInv
<1>12. UniqueInv
  <2>1. \A m : ~InTo(m) /\ ~AtIot(m) /\ ~InFrom(m)
    BY <1>1, <1>7 DEF InTo, AtIot, InFrom, Has
  <2>2. \A m : ~AtReactor(m) /\ ~InTasks(m) /\ ~AtWorker(m)
    BY <1>3, <1>7 DEF AtReactor, InTasks, AtWorker
  <2>3. OnePlace
    BY <2>1, <2>2 DEF OnePlace, In
  <2>4. RepliesOnce /\ TasksOnce /\ WorkersOnce
    BY <1>1, <1>3 DEF RepliesOnce, Once, TasksOnce, WorkersOnce
  <2> QED
    BY <2>3, <2>4 DEF UniqueInv
<1>13. SlicerInv /\ NoNullSlicer
  BY <1>4 DEF SlicerInv, NoNullSlicer
<1>14. EffectInv
  <2>1. \A m \in Headers : ~Waits(m)
    BY <1>1, <1>7 DEF Waits, InTo, Has, AtWork
  <2>2. \A h \in Handles : effect[h] = [k \in {} |-> Zero] /\ DOMAIN effect[h] = {}
    OBVIOUS
  <2> QED
    BY <2>1, <2>2 DEF EffectInv, EffectTypes, EffectSent, Untaken
<1>15. RefInv
  <2>1. \A h : reactor # Returning(h)
    BY <1>7 DEF Returning
  <2>2. \A h \in Handles : ~Referenced(h) /\ Fresh(h)
    BY <2>1, NamesAssumption DEF Referenced, Fresh
  <2> QED
    BY <1>4, <2>2 DEF RefInv, NotLost, DisconnectKept, AnsweredLast
<1>16. TellInv
  <2>1. AcksTell
    BY <1>1, <1>7 DEF AcksTell, AtAck, InFrom, Has
  <2>2. StreamsTell
    BY <1>1, <1>7 DEF StreamsTell, Carries
  <2>3. TasksTell /\ BuffersTell
    BY <1>3, <1>4 DEF TasksTell, Replies, BuffersTell
  <2> QED
    BY <2>1, <2>2, <2>3 DEF TellInv
<1> QED
  BY <1>2, <1>5, <1>6, <1>8, <1>9, <1>10, <1>11, <1>12, <1>13, <1>14, <1>15, <1>16 DEF Inv

\* and every step keeps it until the uids wrap.
LEMMA StepInv == Inv /\ UidsLast' /\ [Next]_vars => Inv'
<1> SUFFICES ASSUME Inv, UidsLast', [Next]_vars PROVE Inv'
  OBVIOUS
<1> USE DEF Inv
<1>1. TypeInv'
  BY TypesKept
<1>2. ServeInv'
  BY ServesKept
<1>3. UidInv'
  BY UidsKept
<1>4. HeaderInv'
  BY <1>1, <1>2, HeadersKept
<1>5. FrameInv'
  BY RequestFramesKept, ReplyFramesKept DEF FrameInv
<1>6. OnceInv'
  BY OnceKept
<1>7. BufferInv'
  BY <1>1, <1>2, BuffersKept
<1>8. CounterInv'
  BY CounterKept
<1>9. UniqueInv'
  BY UniqueKept
<1>10. SlicerInv'
  BY SlicersKept
<1>11. NoNullSlicer'
  BY NoNullKept
<1>12. EffectInv'
  BY <1>1, EffectsKept
<1>13. RefInv'
  BY ReferencesKept
<1>14. TellInv'
  BY TellKept
<1> QED
  BY <1>1, <1>2, <1>3, <1>4, <1>5, <1>6, <1>7, <1>8, <1>9, <1>10, <1>11, <1>12, <1>13, <1>14

-----------------------------------------------------------------------------
\* The types of the invariant are those of TypeOK.
LEMMA TypesAreOK == TypeInv => TypeOK
<1> SUFFICES ASSUME TypeInv PROVE TypeOK
  OBVIOUS
<1>1. reactor.at \in {"select", "return", "data", "spinning"}
  BY DEF TypeInv, ReactorTypes, Reactors, Select, Spinning
<1>2. \A t \in tasks : \/ t.kind = "request" /\ t.h \in Handles
                       \/ t.kind = "reply" /\ t.header \in Headers \cup {MadeUp}
  BY DEF TypeInv, TaskTypes, RequestTasks, ReplyTasks
<1>3. \A m \in Messages : IsMessage(m)
  BY DEF Messages, DataMessages, IsMessage
<1>4. \A i \in Iots : /\ \A j \in 1 .. Len(toIot[i]) : IsMessage(toIot[i][j])
                      /\ \A j \in 1 .. Len(fromIot[i]) : IsMessage(fromIot[i][j])
  <2>1. \A s \in Seq(Messages) : \A j \in 1 .. Len(s) : s[j] \in Messages
    BY ElementOfSeq
  <2> QED
    BY <1>3, <2>1 DEF TypeInv, NetTypes
<1>5. \A i \in Iots : Len(toIot[i]) <= SocketCap /\ Len(fromIot[i]) <= SocketCap
  BY DEF TypeInv, NetTypes
<1>6. \A i \in Iots : DOMAIN storage[i] = Offsets
  BY DEF TypeInv, DeviceTypes
<1> QED
  BY <1>1, <1>2, <1>4, <1>5, <1>6
  DEF TypeOK, TypeInv, KernelTypes, ReactorTypes, WorkerTypes, SlicerTypes, PCs

\* The frames of the invariant are those of StreamsFramed.
LEMMA FramesAreFramed == TypeInv /\ HeaderInv /\ FrameInv => StreamsFramed
<1> SUFFICES ASSUME TypeInv, HeaderInv, FrameInv, NEW i \in Iots
    PROVE  /\ \A j \in 1 .. Len(toIot[i]) :
                /\ toIot[i][j].kind = "data" <=>
                     Wants("WRITE", Before(toIot[i], FirstTo(i), j))
                /\ toIot[i][j].kind = "data" /\ eofReads = 0 =>
                     toIot[i][j].bytes = Payload(Before(toIot[i], FirstTo(i), j).owner,
                                           Before(toIot[i], FirstTo(i), j).m_fragmentIdx)
           /\ \A j \in 1 .. Len(fromIot[i]) :
                fromIot[i][j].kind = "data" <=>
                  Wants("READ", Before(fromIot[i], FirstFrom(i), j))
  BY DEF StreamsFramed, Wants, Before, FirstTo, FirstFrom
<1>1. /\ Framed("WRITE", toIot[i], FirstTo(i))
      /\ eofReads = 0 => Carries(Payloads, toIot[i], FirstTo(i))
      /\ Framed("READ", fromIot[i], FirstFrom(i))
  BY DEF FrameInv, RequestFrames, ReplyFrames
<1>2. ASSUME NEW j \in 1 .. Len(toIot[i]), toIot[i][j].kind = "data", eofReads = 0
      PROVE  toIot[i][j].bytes = Payload(Before(toIot[i], FirstTo(i), j).owner,
                                   Before(toIot[i], FirstTo(i), j).m_fragmentIdx)
  <2> DEFINE m == Before(toIot[i], FirstTo(i), j)
  <2>1. Wants("WRITE", m) /\ toIot[i][j].bytes = Payloads[m.owner][m.m_fragmentIdx]
    BY <1>1, <1>2 DEF Framed, Carries
  <2>2. m \in Headers
    <3>1. CASE j > 1
      <4>1. j - 1 \in 1 .. Len(toIot[i]) /\ m = toIot[i][j - 1]
        BY <3>1 DEF Before, TypeInv, NetTypes
      <4> QED
        BY <2>1, <4>1 DEF HeaderInv, RequestHeaders, IsSent, IsHeader, Wants
    <3>2. CASE ~(j > 1)
      <4>1. m = FirstTo(i)
        BY <3>2 DEF Before
      <4> QED
        BY <2>1, <4>1 DEF FirstTo, Wants, Data, HeaderInv, DeviceHeaders, IsSent, IsHeader
    <3> QED
      BY <3>1, <3>2
  <2> QED
    BY <2>1, <2>2 DEF Payloads, Headers
<1> QED
  BY <1>1, <1>2 DEF Framed

-----------------------------------------------------------------------------
(***************************************************************************)
(* Every variable of the daemon, of the connections and of the devices     *)
(* has its type, whatever the interleaving and whichever device fails,     *)
(* until the uids that Slice gives wrap.                                   *)
(***************************************************************************)
THEOREM TypeCorrect == Spec /\ []UidsLast => []TypeOK
<1>1. Init => Inv
  BY InitInv
<1>2. Inv /\ UidsLast' /\ [Next]_vars => Inv'
  BY StepInv
<1>3. Inv => TypeOK
  BY TypesAreOK DEF Inv
<1> QED
  BY <1>1, <1>2, <1>3, PTL DEF Spec

(***************************************************************************)
(* The headers and data that the workers send under g_mutex, and those     *)
(* that the devices send back, never mix on a connection, until the uids   *)
(* that Slice gives wrap.                                                  *)
(***************************************************************************)
THEOREM Framing == Spec /\ []UidsLast => []StreamsFramed
<1>1. Init => Inv
  BY InitInv
<1>2. Inv /\ UidsLast' /\ [Next]_vars => Inv'
  BY StepInv
<1>3. Inv => StreamsFramed
  BY FramesAreFramed DEF Inv
<1> QED
  BY <1>1, <1>2, <1>3, PTL DEF Spec

(***************************************************************************)
(* While the devices are up Splicer::Reply never dereferences a null       *)
(* slicer, until the uids that Slice gives wrap.                           *)
(***************************************************************************)
THEOREM SlicerAlwaysFound == Spec /\ []UidsLast => []NoNullSlicer
<1>1. Init => Inv
  BY InitInv
<1>2. Inv /\ UidsLast' /\ [Next]_vars => Inv'
  BY StepInv
<1>3. Inv => NoNullSlicer
  BY DEF Inv
<1> QED
  BY <1>1, <1>2, <1>3, PTL DEF Spec

(***************************************************************************)
(* The uids do not wrap while the kernel makes no more requests than a     *)
(* uint32_t tells apart.                                                   *)
(***************************************************************************)
THEOREM NoWrap ==
  ASSUME IsFiniteSet(Handles), Cardinality(Handles) <= UidSpace
  PROVE  Spec => []UidsLast
<1>1. Init => Inv
  BY InitInv
<1>2. TypeInv /\ CounterInv => UidsLast
  <2> SUFFICES ASSUME TypeInv, CounterInv PROVE UidsLast
    OBVIOUS
  <2>1. Cardinality(Cut) <= Cardinality(Handles) /\ Cardinality(Cut) \in Nat
    <3>1. Cut \in SUBSET Handles
      BY DEF Cut
    <3> QED
      BY <3>1, FS_Subset, FS_CardinalityType
  <2> QED
    BY <2>1, FS_CardinalityType, UidSpaceAssumption DEF CounterInv, UidsLast
<1>3. Inv /\ [Next]_vars => Inv'
  <2> SUFFICES ASSUME Inv, [Next]_vars PROVE Inv'
    OBVIOUS
  <2>1. TypeInv' /\ CounterInv'
    BY TypesKept, CounterKept DEF Inv
  <2>2. UidsLast'
    BY <1>2, <2>1, PTL
  <2> QED
    BY <2>2, StepInv
<1>4. Inv => UidsLast
  BY <1>2 DEF Inv
<1> QED
  BY <1>1, <1>3, <1>4, PTL DEF Spec

-----------------------------------------------------------------------------
(***************************************************************************)
(* The refinement of BlockDevice.                                          *)
(***************************************************************************)

LEMMA Aligned ==
  \A x \in Nat : (x % FRAGMENT_SIZE) = 0 =>
    x \div FRAGMENT_SIZE \in Nat /\ x = FRAGMENT_SIZE * (x \div FRAGMENT_SIZE)
BY Division, FragmentSizeAssumption

\* Every block of the nbd device has a home on the devices,
LEMMA HomeExists ==
  ASSUME NEW a \in Offsets
  PROVE  Home(a, NumOfIots).iot \in Iots /\ Home(a, NumOfIots).offset \in Offsets
<1> DEFINE x == a \div FRAGMENT_SIZE
           q == x \div NumOfIots
<1>1. a \in Nat /\ a <= DeviceSize /\ (a % FRAGMENT_SIZE) = 0 /\ DeviceSize \in Nat
  BY BoundsAssumption DEF Offsets
<1>2. x \in Nat /\ a = FRAGMENT_SIZE * x
  BY <1>1, Aligned
<1> HIDE DEF x
<1>3. q \in Nat /\ q <= x /\ (x % NumOfIots) \in Iots
  <2>1. q \in Nat /\ q <= x
    BY <1>2, NumOfIotsAssumption
  <2>2. (x % NumOfIots) \in Iots
    BY <1>2, Division, NumOfIotsAssumption DEF Iots
  <2> QED
    BY <2>1, <2>2
<1> HIDE DEF q
<1>4. /\ q * FRAGMENT_SIZE \in Nat /\ q * FRAGMENT_SIZE = (FRAGMENT_SIZE * q) + 0
      /\ ((q * FRAGMENT_SIZE) % FRAGMENT_SIZE) = 0
  BY <1>3, DivisionUnique, FragmentSizeAssumption
<1>5. q * FRAGMENT_SIZE <= FRAGMENT_SIZE * x
  BY <1>2, <1>3, FragmentSizeAssumption
<1>6. q * FRAGMENT_SIZE \in Offsets
  BY <1>1, <1>2, <1>4, <1>5 DEF Offsets
<1> QED
  BY <1>3, <1>6 DEF Home, x, q

\* and no two blocks have the same.
LEMMA HomeInjective ==
  ASSUME NEW a \in Offsets, NEW b \in Offsets, Home(a, NumOfIots) = Home(b, NumOfIots)
  PROVE  a = b
<1> DEFINE x == a \div FRAGMENT_SIZE
           y == b \div FRAGMENT_SIZE
<1>1. x \in Nat /\ a = FRAGMENT_SIZE * x /\ y \in Nat /\ b = FRAGMENT_SIZE * y
  <2>1. a \in Nat /\ (a % FRAGMENT_SIZE) = 0 /\ b \in Nat /\ (b % FRAGMENT_SIZE) = 0
    BY BoundsAssumption DEF Offsets
  <2> QED
    BY <2>1, Aligned
<1>2. /\ (x % NumOfIots) = (y % NumOfIots)
      /\ (x \div NumOfIots) * FRAGMENT_SIZE = (y \div NumOfIots) * FRAGMENT_SIZE
  BY DEF Home
<1> HIDE DEF x, y
<1>3. /\ x \div NumOfIots \in Nat /\ x = (NumOfIots * (x \div NumOfIots)) + (x % NumOfIots)
      /\ y \div NumOfIots \in Nat /\ y = (NumOfIots * (y \div NumOfIots)) + (y % NumOfIots)
  BY <1>1, Division, NumOfIotsAssumption
<1>4. \A p, q \in Nat : p * FRAGMENT_SIZE = q * FRAGMENT_SIZE => p = q
  BY FragmentSizeAssumption
<1>5. x \div NumOfIots = y \div NumOfIots
  BY <1>2, <1>3, <1>4
<1>6. x = y
  BY <1>2, <1>3, <1>5
<1> QED
  BY <1>1, <1>6

(***************************************************************************)
(* A fragment at its device is a block of its request, and is at the home  *)
(* of the block's address.                                                 *)
(***************************************************************************)
LEMMA MappedFragment ==
  ASSUME TypeInv, NEW x \in Headers, IsHeader(x), BuffersOK
  PROVE  /\ x.owner \in Handles /\ request[x.owner] # Unset
         /\ x.m_fragmentIdx \in Blocks(request[x.owner])
         /\ Address(request[x.owner], x.m_fragmentIdx) \in Offsets \ {DeviceSize}
         /\ Home(Address(request[x.owner], x.m_fragmentIdx), NumOfIots)
              = [iot |-> HomeOf(x), offset |-> x.m_iotOffset]
         /\ x.m_type = request[x.owner].type
<1> DEFINE h == x.owner
           k == x.m_fragmentIdx
           s == request[h]
<1>1. h \in Handles /\ k \in Nat /\ Sliced(h) /\ k < NumOfFragments(s.len)
  BY DEF Headers, IsHeader, NumOf
<1>2. s # Unset /\ s \in Shapes
  BY <1>1 DEF BuffersOK, HasBuffer, TypeInv, KernelTypes
<1>3. k \in Blocks(s)
  BY <1>1, <1>2, ShapeFacts
<1>4. /\ Place(h, k) = Home(Address(s, k), NumOfIots)
      /\ Address(s, k) \in Offsets \ {DeviceSize}
  BY <1>1, <1>2, FragmentAtHome DEF Place, NumOf
<1>5. x.m_iotOffset = Place(h, k).offset /\ x.m_type = s.type /\ HomeOf(x) = Place(h, k).iot
  BY DEF IsHeader, HeaderOf, Header, HomeOf
<1>6. Home(Address(s, k), NumOfIots) = [iot |-> HomeOf(x), offset |-> x.m_iotOffset]
  <2>1. Home(Address(s, k), NumOfIots) =
          [iot |-> Home(Address(s, k), NumOfIots).iot,
           offset |-> Home(Address(s, k), NumOfIots).offset]
    BY DEF Home
  <2> QED
    BY <1>4, <1>5, <2>1
<1> QED
  BY <1>1, <1>2, <1>3, <1>4, <1>5, <1>6

(***************************************************************************)
(* The mapped disk, and what storing a fragment does to it.                *)
(***************************************************************************)
Disk ==
  [a \in Offsets \ {DeviceSize} |->
     storage[Home(a, NumOfIots).iot][Home(a, NumOfIots).offset]]

\* A device that stores a fragment at its offset writes that block alone.
LEMMA StoresBlock ==
  ASSUME TypeInv, NEW a \in Offsets \ {DeviceSize}, NEW v,
         storage' = [storage EXCEPT ![Home(a, NumOfIots).iot][Home(a, NumOfIots).offset] = v]
  PROVE  Disk' = [Disk EXCEPT ![a] = v]
<1> DEFINE At(b) == storage[Home(b, NumOfIots).iot][Home(b, NumOfIots).offset]
<1>1. ASSUME NEW b \in Offsets \ {DeviceSize}
      PROVE  At(b)' = IF b = a THEN v ELSE At(b)
  <2> DEFINE i == Home(a, NumOfIots).iot
             o == Home(a, NumOfIots).offset
             j == Home(b, NumOfIots).iot
             p == Home(b, NumOfIots).offset
  <2>1. i \in Iots /\ o \in Offsets /\ j \in Iots /\ p \in Offsets
    BY HomeExists
  <2>2. i = j /\ o = p => a = b
    <3>1. Home(a, NumOfIots) = [iot |-> i, offset |-> o] /\
            Home(b, NumOfIots) = [iot |-> j, offset |-> p]
      BY DEF Home
    <3> QED
      BY <3>1, HomeInjective
  <2> HIDE DEF i, o, j, p
  <2>3. storage[i] \in [Offsets -> Bytes] /\ storage[j] \in [Offsets -> Bytes]
    BY <2>1 DEF TypeInv, DeviceTypes
  <2>4. storage' = [storage EXCEPT ![i][o] = v]
    BY DEF i, o
  <2>5. storage'[j][p] = IF i = j /\ o = p THEN v ELSE storage[j][p]
    BY <2>1, <2>3, <2>4 DEF TypeInv, DeviceTypes
  <2>6. a = b => i = j /\ o = p
    BY DEF i, o, j, p
  <2> QED
    BY <2>2, <2>5, <2>6 DEF j, p
<1> QED
  BY <1>1 DEF Disk

-----------------------------------------------------------------------------
(***************************************************************************)
(* A request that was taken up and that nobody keeps a reference to any    *)
(* more took effect on all its blocks, and the buffer of a READ holds what *)
(* was found.                                                              *)
(***************************************************************************)
Whole(h) ==
  /\ DOMAIN effect[h] = Blocks(request[h])
  /\ request[h].type = "READ" => buffer[h] = effect[h]
Finished(h) ==
  ~Fresh(h) /\ ~Referenced(h) =>
    /\ request[h] \in Shapes /\ request[h].type \in {"READ", "WRITE"}
    /\ ~Broken => Whole(h)

DoneWhenDropped == \A h \in Handles : Finished(h)

\* It is so in every state of the invariant.
LEMMA AllFinished == Inv => DoneWhenDropped
<1> SUFFICES ASSUME Inv, NEW h \in Handles, ~Fresh(h), ~Referenced(h)
             PROVE  /\ request[h] \in Shapes /\ request[h].type \in {"READ", "WRITE"}
                    /\ ~Broken => Whole(h)
  BY DEF DoneWhenDropped, Finished
<1>0. /\ TypeInv /\ ServeInv /\ SlicerInv /\ EffectInv /\ RefInv /\ TellInv
      /\ SlicerTypes /\ BuffersOK
  BY DEF Inv, TypeInv, ServeInv
<1>1. request[h] \in Shapes
  BY <1>0 DEF Fresh, TypeInv, KernelTypes
<1>2. Sliced(h)
  <2>1. ~Queued(h)
    BY DEF Queued, Referenced
  <2> QED
    BY <1>0, <2>1 DEF RefInv, NotLost
<1>3. ~Kept(h)
  <2>1. m_requestUid[h] \in DOMAIN m_slicerMap
    BY <1>0, <1>2 DEF Sliced, SlicerTypes
  <2> QED
    BY <2>1 DEF Kept, Referenced
<1>4. request[h].type \in {"READ", "WRITE"}
  BY <1>0, <1>1, <1>2, <1>3, ShapeFacts DEF RefInv, DisconnectKept
<1>5. ASSUME ~Broken PROVE Whole(h)
  <2>1. Outstanding(h) = {}
    BY <1>0, <1>2, <1>3, <1>5 DEF SlicerInv
  <2>2. ASSUME NEW k \in Blocks(request[h])
        PROVE  /\ k \in DOMAIN effect[h]
               /\ request[h].type = "READ" => buffer[h][k] = effect[h][k]
    <3>1. PICK m \in Headers : m = HeaderOf(h, k) /\ Tells(m, buffer[h][k])
      BY <1>0, <1>2, <1>5, <2>1 DEF TellInv, BuffersTell
    <3>2. m.owner = h /\ m.m_fragmentIdx = k /\ m.m_type = request[h].type
      BY <3>1 DEF HeaderOf, Header
    <3> QED
      BY <3>1, <3>2 DEF Tells, Took
  <2>3. ASSUME NEW k \in DOMAIN effect[h] PROVE k \in Blocks(request[h])
    <3>1. PICK m \in Headers : m.owner = h /\ m.m_fragmentIdx = k /\ WasSent(m)
      BY <1>0 DEF EffectInv, EffectSent
    <3> QED
      BY <1>0, <3>1, MappedFragment DEF WasSent
  <2>4. DOMAIN effect[h] = Blocks(request[h])
    BY <2>2, <2>3
  <2>5. ASSUME request[h].type = "READ" PROVE buffer[h] = effect[h]
    <3>1. buffer[h] = [k \in Blocks(request[h]) |-> buffer[h][k]]
      BY <1>0, <1>2 DEF BuffersOK, HasBuffer
    <3>2. effect[h] = [k \in Blocks(request[h]) |-> effect[h][k]]
      BY <1>0, <2>4 DEF EffectInv, EffectTypes
    <3>3. [k \in Blocks(request[h]) |-> buffer[h][k]] = [k \in Blocks(request[h]) |-> effect[h][k]]
      BY <2>2, <2>5
    <3> QED
      BY <3>1, <3>2, <3>3
  <2> QED
    BY <2>4, <2>5 DEF Whole
<1> QED
  BY <1>1, <1>4, <1>5

-----------------------------------------------------------------------------
(***************************************************************************)
(* The steps that the block device sees.                                   *)
(***************************************************************************)
Ruined == status = "overwritten"
Hidden == UNCHANGED <<storage, request, effect, answered, iot>> /\ (Ruined' <=> Ruined)

\* Reply leaves the buffer of a request only for a made-up header.
LEMMA OverwrittenWhenBroken ==
  ASSUME TypeInv, ServeInv, UidInv, HeaderInv, NEW w \in Workers, Reply(w), Ruined'
  PROVE  Broken
<1>1. PICK u \in Uids, ks \in SUBSET Int :
        /\ task[w].header # MadeUp =>
             /\ WasSent(task[w].header) /\ u = task[w].header.m_requestUid
             /\ ks = {task[w].header.m_fragmentIdx}
        /\ task[w].header = MadeUp => eofReads > 0
        /\ Strays(u, ks) \/ \E h \in Handles : Finds(w, u, ks, h)
  BY ReplyDoes
<1>2. m_slicerMap[u] \in Handles /\ ~(ks \subseteq Blocks(request[m_slicerMap[u]]))
  BY <1>1 DEF Reply, Ruined, Strays, Finds
<1>3. ASSUME NEW x, x = task[w].header, WasSent(x), u = x.m_requestUid, ks = {x.m_fragmentIdx}
      PROVE  FALSE
  <2>1. request[x.owner] # Unset
    BY <1>3 DEF WasSent, IsHeader, Headers, ServeInv, BuffersOK, HasBuffer
  <2> QED
    BY <1>2, <1>3, <2>1, NamesAssumption, FoundSlicer
<1> QED
  BY <1>1, <1>3 DEF HeaderInv, ReactorHeaders

\* All other steps are hidden from it.
LEMMA WhatIsSeen ==
  ASSUME TypeInv, ServeInv, UidInv, HeaderInv, [Next]_vars
  PROVE  \/ Hidden
         \/ Broken /\ Ruined'
         \/ \E h \in Handles, s \in Shapes : KernelSubmit(h, s)
         \/ \E h \in Handles : DropReference(h) /\ Referenced(h) /\ status = "up" /\
              UNCHANGED <<kernelVars, iotVars, buffer>>
         \/ \E i \in Iots : Iot(i) \/ IotFail(i)
<1> USE DEF kernelVars, requestVars, reactorVars, workerVars, slicerVars, netVars, iotVars, Ruined
<1>1. CASE KernelShutdown \/ ManageRequests \/ ReactorAtEof
  BY <1>1 DEF KernelShutdown, ManageRequests, ReactorAtEof, Hidden
<1>2. ASSUME NEW i \in Iots, ManageReplies(i) \/ ManageRepliesData(i) \/ ManageRepliesEof(i)
      PROVE  Hidden
  BY <1>2 DEF ManageReplies, ManageRepliesData, ManageRepliesEof, Hidden
<1>3. ASSUME NEW w \in Workers,
             \/ Pop(w) \/ Slice(w) \/ SenderLock(w) \/ SendHeader(w) \/ SendData(w)
             \/ SendFails(w)
      PROVE  Hidden
  BY <1>3 DEF Pop, Slice, SenderLock, SendHeader, SendData, SendFails, Hidden
<1>30. ASSUME NEW w \in Workers, Reply(w) PROVE Hidden \/ (Broken /\ Ruined')
  BY <1>30, OverwrittenWhenBroken DEF Reply, Hidden
<1>4. ASSUME NEW w \in Workers, InsertSlicer(w) PROVE Hidden
  <2>1. m_slicerMap[m_requestUid[held[w]]] = Nobody
    BY <1>4 DEF InsertSlicer, UidInv
  <2> QED
    BY <1>4, <2>1, NamesAssumption DEF InsertSlicer, Hidden
<1>5. CASE ReactorReturn
  BY <1>5 DEF ReactorReturn, Referenced
<1>6. ASSUME NEW w \in Workers, Release(w)
      PROVE  \E h \in Handles : DropReference(h) /\ Referenced(h) /\ status = "up" /\
               UNCHANGED <<kernelVars, iotVars, buffer>>
  BY <1>6 DEF Release, Referenced
<1>7. CASE UNCHANGED vars
  BY <1>7 DEF vars, Hidden
<1> QED
  BY <1>1, <1>2, <1>3, <1>30, <1>4, <1>5, <1>6, <1>7 DEF Next, Reactor, Worker, Stop

(***************************************************************************)
(* A fragment that takes effect is a block that was not done.              *)
(***************************************************************************)
LEMMA BlockUndone ==
  ASSUME Inv, NEW i \in Iots, iot[i].at \in {"write", "sendData"}
  PROVE  /\ iot[i].header \in Headers /\ IsHeader(iot[i].header)
         /\ HomeOf(iot[i].header) = i /\ ~Took(iot[i].header)
         /\ iot[i].header.m_type = IF iot[i].at = "sendData" THEN "READ" ELSE "WRITE"
         /\ Home(Address(request[iot[i].header.owner], iot[i].header.m_fragmentIdx), NumOfIots)
              = [iot |-> i, offset |-> iot[i].header.m_iotOffset]
<1>1. TypeInv /\ BuffersOK /\ DeviceHeaders /\ Untaken
  BY DEF Inv, ServeInv, HeaderInv, EffectInv
<1>2. /\ iot[i].header \in Headers /\ IsHeader(iot[i].header) /\ HomeOf(iot[i].header) = i
      /\ iot[i].header.m_type = IF iot[i].at = "sendData" THEN "READ" ELSE "WRITE"
  BY <1>1 DEF DeviceHeaders, IsSent, WasSent, IsHeader
<1>3. ~Took(iot[i].header)
  BY <1>1, <1>2 DEF Untaken, Waits, AtWork
<1> QED
  BY <1>1, <1>2, <1>3, MappedFragment

(***************************************************************************)
(* Every step is a step of the block device or leaves it unchanged.        *)
(***************************************************************************)
LEMMA StepMaps == Inv /\ Inv' /\ [Next]_vars => [Device!Next]_(Device!vars)
<1> SUFFICES ASSUME Inv, Inv', [Next]_vars PROVE Device!Next \/ UNCHANGED Device!vars
  OBVIOUS
<1>0. /\ TypeInv /\ ServeInv /\ UidInv /\ HeaderInv /\ EffectTypes /\ BuffersOK
      /\ AnsweredLast
  BY DEF Inv, EffectInv, RefInv, ServeInv
<1>00. ASSUME status' = status PROVE Ruined' = Ruined
  BY <1>00 DEF Ruined
<1>1. CASE Hidden
  <2>1. Broken' = Broken /\ Disk' = Disk /\ Ruined' = Ruined
    BY <1>1 DEF Hidden, Broken, Disk, Ruined
  <2> QED
    BY <1>1, <2>1, Zenon DEF Hidden, Device!vars, Disk, Ruined
<1>10. CASE Broken /\ Ruined'
  <2>1. Ruined' = TRUE
    BY <1>10 DEF Ruined
  <2> QED
    BY <1>10, <2>1, Zenon DEF Device!Next, Device!Ruin, Ruined
<1>2. ASSUME NEW h \in Handles, NEW s \in Shapes, KernelSubmit(h, s) PROVE Device!Next
  <2>1. request[h] = Unset /\ request' = [request EXCEPT ![h] = s] /\
          UNCHANGED <<iotVars, answered, status>>
    BY <1>2 DEF KernelSubmit, requestVars
  <2>2. /\ Broken' = Broken /\ Disk' = Disk /\ Ruined' = Ruined
        /\ UNCHANGED <<effect, answered>>
    BY <1>00, <2>1 DEF Broken, Disk, iotVars
  <2>3. Device!Submit(h)
    BY <2>1, <2>2, Zenon DEF Device!Submit, Disk, Ruined
  <2> QED
    BY <2>3 DEF Device!Next
<1>3. ASSUME NEW h \in Handles, DropReference(h), Referenced(h), status = "up",
             UNCHANGED <<kernelVars, iotVars, buffer>>
      PROVE  Device!Next \/ Hidden
  <2> USE DEF kernelVars, iotVars
  <2>0. Ruined' = Ruined /\ ~Ruined'
    BY <1>3, DropStatus DEF Ruined
  <2>1. CASE answered' = answered
    BY <1>3, <2>0, <2>1 DEF Hidden
  <2>2. CASE answered' # answered
    <3>1. ~Referenced(h)' /\ answered' = [answered EXCEPT ![h] = NbdReply(h)]
      BY <1>3, <2>2, Zenon DEF DropReference
    <3>2. answered[h] = Unset /\ ~Fresh(h)
      BY <1>0, <1>3 DEF AnsweredLast
    <3>3. ~Fresh(h)'
      BY <1>3, <3>2 DEF Fresh, InNbd
    <3>4. Finished(h)'
      <4>1. DoneWhenDropped'
        BY AllFinished, PTL
      <4> QED
        BY <4>1 DEF DoneWhenDropped
    <3>5. Broken' <=> Broken
      BY <1>3 DEF Broken
    <3>6. /\ request[h] \in Shapes /\ request[h].type \in {"READ", "WRITE"}
          /\ ~Broken => Whole(h)
      BY <1>3, <3>1, <3>3, <3>4, <3>5 DEF Finished, Whole
    <3>7. Broken' = Broken /\ Disk' = Disk
      BY <1>3 DEF Broken, Disk
    <3>8. Device!Done(h) = DOMAIN effect[h]
      BY DEF Device!Done
    <3>9. \/ /\ Device!Done(h) = Blocks(request[h])
             /\ answered' = [answered EXCEPT ![h] = IF request[h].type = "READ" THEN effect[h] ELSE <<>>]
          \/ Broken /\ answered' = [answered EXCEPT ![h] = answered'[h]]
      <4>1. CASE Broken
        <5>1. PICK v : v = NbdReply(h)
          OBVIOUS
        <5>2. answered' = [answered EXCEPT ![h] = v]
          BY <3>1, <5>1
        <5>3. answered'[h] = v
          BY <1>0, <5>2 DEF AnsweredLast
        <5> QED
          BY <4>1, <5>2, <5>3
      <4>2. CASE ~Broken
        <5>1. NbdReply(h) = IF request[h].type = "READ" THEN effect[h] ELSE <<>>
          BY <3>6, <4>2 DEF NbdReply, Whole
        <5> QED
          BY <3>1, <3>6, <3>8, <4>2, <5>1 DEF Whole
      <4> QED
        BY <4>1, <4>2
    <3>10. Device!Answer(h)
      BY <1>3, <2>0, <3>2, <3>6, <3>7, <3>9, Zenon DEF Device!Answer, Disk, Ruined
    <3> QED
      BY <3>6, <3>10, NamesAssumption DEF Device!Next
  <2> QED
    BY <2>1, <2>2
<1>4. ASSUME NEW i \in Iots, IotReadHeader(i) \/ IotSendHeader(i) PROVE UNCHANGED Device!vars
  <2>1. UNCHANGED <<storage, effect, request, answered, status>>
    BY <1>4 DEF IotReadHeader, IotSendHeader, iotUnchanged, kernelVars, requestVars
  <2>2. \A d \in Iots : iot'[d] = Closed <=> iot[d] = Closed
    BY <1>0, <1>4 DEF IotReadHeader, IotSendHeader, IotAt, IotIdle, Closed, TypeInv, DeviceTypes
  <2>3. Broken' = Broken /\ Disk' = Disk /\ Ruined' = Ruined
    BY <1>00, <2>1, <2>2 DEF Broken, Disk
  <2> QED
    BY <2>1, <2>3, Zenon DEF Device!vars, Disk, Ruined
<1>5. ASSUME NEW i \in Iots, IotWrite(i) \/ IotSendData(i) PROVE Device!Next
  <2>1. PICK x \in Headers : x = iot[i].header
    BY <1>5, BlockUndone DEF IotWrite, IotSendData
  <2> DEFINE h == x.owner
             k == x.m_fragmentIdx
             a == Address(request[h], k)
  <2>2. /\ IsHeader(x) /\ ~Took(x)
        /\ x.m_type = IF iot[i].at = "sendData" THEN "READ" ELSE "WRITE"
        /\ Home(a, NumOfIots) = [iot |-> i, offset |-> x.m_iotOffset]
    BY <1>5, <2>1, BlockUndone DEF IotWrite, IotSendData
  <2>3. /\ h \in Handles /\ request[h] # Unset /\ k \in Blocks(request[h])
        /\ a \in Offsets \ {DeviceSize} /\ x.m_type = request[h].type
    BY <1>0, <2>2, MappedFragment
  <2>4. k \in Blocks(request[h]) \ Device!Done(h)
    BY <2>2, <2>3 DEF Took, Device!Done
  <2>5. UNCHANGED <<request, answered>> /\ Broken' = Broken /\ Ruined' = Ruined
    <3>1. \A d \in Iots : iot'[d] = Closed <=> iot[d] = Closed
      BY <1>0, <1>5 DEF IotWrite, IotSendData, IotAt, IotIdle, Closed, TypeInv, DeviceTypes
    <3> QED
      BY <1>00, <1>5, <3>1
      DEF IotWrite, IotSendData, iotUnchanged, kernelVars, requestVars, Broken
  <2>6. \A v : Record(x, v) => Device!Record(h, k, v)
    BY DEF Record, Device!Record, Device!Done
  <2> HIDE DEF a
  <2>7. CASE IotWrite(i)
    <3>1. PICK v : v = Head(toIot[i]).bytes
      OBVIOUS
    <3>2. v = Payload(h, k) \/ Broken
      <4>1. eofReads = 0 \/ Broken
        BY <1>0, NoneMadeUp
      <4> QED
        BY <2>1, <2>7, <3>1, <4>1, FrontOfRequests DEF IotWrite, Inv
    <3>3. Record(x, v) /\ storage' = [storage EXCEPT ![i][x.m_iotOffset] = v]
      BY <2>1, <2>7, <3>1 DEF IotWrite
    <3>4. Disk' = [Disk EXCEPT ![a] = v]
      <4>1. Home(a, NumOfIots).iot = i /\ Home(a, NumOfIots).offset = x.m_iotOffset
        BY <2>2
      <4> QED
        BY <1>0, <2>3, <3>3, <4>1, StoresBlock
    <3>5. Disk'[a] = v
      BY <2>3, <3>4 DEF Disk
    <3>6. request[h].type = "WRITE" /\ Device!Record(h, k, v)
      BY <2>2, <2>3, <2>6, <2>7, <3>3 DEF IotWrite
    <3>7. /\ Disk' = [Disk EXCEPT ![a] = Disk'[a]]
          /\ Disk'[a] = Payload(h, k) \/ Broken
          /\ Device!Record(h, k, Disk'[a])
      BY <3>2, <3>4, <3>5, <3>6
    <3>8. Device!WriteBlock(h, k)
      BY <2>5, <3>6, <3>7, Zenon DEF Device!WriteBlock, Disk, a, Ruined
    <3> QED
      BY <2>3, <2>4, <3>8, Zenon DEF Device!Next
  <2>8. CASE IotSendData(i)
    <3>1. Record(x, storage[i][x.m_iotOffset]) /\ storage' = storage
      BY <2>1, <2>8 DEF IotSendData
    <3>2. Disk[a] = storage[i][x.m_iotOffset]
      BY <2>2, <2>3 DEF Disk
    <3>3. request[h].type = "READ" /\ Disk' = Disk
      BY <2>2, <2>3, <2>8, <3>1 DEF IotSendData, Disk
    <3>4. Device!Record(h, k, Disk[a])
      BY <2>6, <3>1, <3>2
    <3>5. Device!ReadBlock(h, k)
      BY <2>5, <3>3, <3>4, Zenon DEF Device!ReadBlock, Disk, a, Ruined
    <3> QED
      BY <2>3, <2>4, <3>5, Zenon DEF Device!Next
  <2> QED
    BY <1>5, <2>7, <2>8
<1>6. ASSUME NEW i \in Iots, IotFail(i) PROVE Device!Next \/ UNCHANGED Device!vars
  <2>1. UNCHANGED <<storage, effect, request, answered>> /\ Disk' = Disk /\ Ruined' = Ruined
    BY <1>00, <1>6 DEF IotFail, iotUnchanged, kernelVars, requestVars, Disk
  <2>2. Broken'
    BY <1>0, <1>6 DEF IotFail, Broken, TypeInv, DeviceTypes
  <2>3. CASE Broken
    <3>1. Broken' = Broken
      BY <2>2, <2>3 DEF Broken
    <3> QED
      BY <2>1, <3>1, Zenon DEF Device!vars, Disk, Ruined
  <2>4. CASE ~Broken
    <3>1. Broken' = TRUE
      BY <2>2 DEF Broken
    <3>2. Device!Break
      BY <2>1, <2>4, <3>1, Zenon DEF Device!Break, Disk, Ruined
    <3> QED
      BY <3>2, Zenon DEF Device!Next
  <2> QED
    BY <2>3, <2>4
<1> QED
  BY <1>0, <1>1, <1>10, <1>2, <1>3, <1>4, <1>5, <1>6, WhatIsSeen DEF Iot

\* The daemon starts as the block device does.
LEMMA InitMaps == Init => Device!Init
<1> SUFFICES ASSUME Init PROVE Device!Init
  OBVIOUS
<1>1. Disk = [a \in Offsets \ {DeviceSize} |-> Zero]
  BY HomeExists DEF Init, Disk
<1>2. Broken = FALSE /\ Ruined = FALSE
  BY DEF Init, Broken, IotIdle, Closed, Ruined
<1> QED
  BY <1>1, <1>2, Zenon DEF Init, Device!Init, Disk, Ruined

(***************************************************************************)
(* The daemon with its devices implements the block device, until the uids *)
(* that Slice gives wrap: whatever the interleaving of reactor, workers    *)
(* and devices, every block of a request takes effect once, at the address *)
(* it is for, and NbdRequestDone answers once, after the last block, with  *)
(* what a READ found.  Once a device is lost the answers and the bytes of  *)
(* a WRITE lose their meaning, but a block changes only by the WRITEs for  *)
(* it, once for each, until a made-up header makes Reply leave the buffer. *)
(***************************************************************************)
THEOREM ImplementsBlockDevice == Spec /\ []UidsLast => IsBlockDevice
<1>1. Init => Inv
  BY InitInv
<1>2. Inv /\ UidsLast' /\ [Next]_vars => Inv'
  BY StepInv
<1>3. Init => Device!Init
  BY InitMaps
<1>4. Inv /\ Inv' /\ [Next]_vars => [Device!Next]_(Device!vars)
  BY StepMaps
<1> QED
  BY <1>1, <1>2, <1>3, <1>4, PTL DEF Spec, IsBlockDevice, Device!Spec

(***************************************************************************)
(* With no more requests than a uint32_t tells apart nothing has to be     *)
(* assumed of the uids that Slice gives: the daemon implements the block   *)
(* device.                                                                 *)
(***************************************************************************)
THEOREM BlockDeviceWhileUidsSuffice ==
  ASSUME IsFiniteSet(Handles), Cardinality(Handles) <= UidSpace
  PROVE  Spec => IsBlockDevice
<1>1. Spec => []UidsLast
  BY NoWrap
<1>2. Spec /\ []UidsLast => IsBlockDevice
  BY ImplementsBlockDevice
<1> QED
  BY <1>1, <1>2, PTL
=============================================================================
