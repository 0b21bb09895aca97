---------------------------- MODULE Parts_proofs ----------------------------
(***************************************************************************)
(* Theorems about the parts that stand alone: the rooms of the relay, the  *)
(* loss window and the bitrate, the floor controller and the reassembly of *)
(* fragments.                                                              *)
(***************************************************************************)
EXTENDS Rooms, RateControl, FloorController, Reassembly,
        Remainders, FiniteSetTheorems

-----------------------------------------------------------------------------
(* The rooms *)

\* What a task that is about to insert has in hand: it found the code free.
RequestInv ==
  request \in [RoomTasks -> [at : {"idle"}] \cup
                            [at : {"insert"}, sid : RoomSids, code : RoomCodes, found : {0}]]

RoomsInv ==
  /\ RequestInv
  /\ rooms \in [RoomCodes -> RoomSids \cup {0}]
  /\ owners \in [RoomCodes -> SUBSET RoomSids]
  /\ contested \subseteq RoomCodes
  /\ CodeLeadsToOwner

LEMMA RoomsInitInv == RoomsInit => RoomsInv
  BY DEF RoomsInit, RoomsInv, RequestInv, CodeLeadsToOwner, handle_get_room

\* A code is inserted where none was, and its creator is its only owner, or over another
\* creation, and it is contested; deleting it leaves neither code nor owner.
LEMMA RoomsNextInv == RoomsInv /\ [RoomsNext]_roomVars => RoomsInv'
<1> SUFFICES ASSUME RoomsInv, [RoomsNext]_roomVars PROVE RoomsInv'
  OBVIOUS
<1>1. ASSUME NEW t \in RoomTasks, NEW sid \in RoomSids \cup {0}, NEW code \in RoomCodes,
             handle_create_room(t, sid, code)
      PROVE  RoomsInv'
  <2>1. CASE sid = 0 \/ rooms[code] # 0
    BY <1>1, <2>1 DEF handle_create_room, RoomsInv, RequestInv, CodeLeadsToOwner, handle_get_room
  <2>2. CASE sid # 0 /\ rooms[code] = 0
    <3>1. request' = [request EXCEPT ![t] = [at |-> "insert", sid |-> sid, code |-> code, found |-> 0]]
      BY <1>1, <2>2 DEF handle_create_room
    <3>2. RequestInv'
      BY <3>1, <2>2 DEF RoomsInv, RequestInv
    <3> QED
      BY SMTT(60), <1>1, <3>2 DEF handle_create_room, RoomsInv, CodeLeadsToOwner, handle_get_room
  <2> QED
    BY SMTT(60), <2>1, <2>2
<1>2. ASSUME NEW t \in RoomTasks, RegisterInserts(t) PROVE RoomsInv'
  <2> DEFINE code == request[t].code
             sid == request[t].sid
  <2>1. code \in RoomCodes /\ sid \in RoomSids /\ request[t].found = 0
    BY <1>2 DEF RegisterInserts, RoomsInv, RequestInv
  <2>2. RequestInv'
    BY <1>2 DEF RegisterInserts, RoomsInv, RequestInv
  <2>3. /\ rooms' = [rooms EXCEPT ![code] = sid]
        /\ owners' = [owners EXCEPT ![code] = owners[code] \cup {sid}]
        /\ contested' = contested \cup {c \in {code} : rooms[c] # 0}
    BY <1>2, <2>1 DEF RegisterInserts
  <2> HIDE DEF code, sid
  <2>4. /\ rooms' \in [RoomCodes -> RoomSids \cup {0}]
        /\ owners' \in [RoomCodes -> SUBSET RoomSids]
        /\ contested' \subseteq RoomCodes
    BY <2>1, <2>3 DEF RoomsInv
  <2>5. ASSUME NEW c \in RoomCodes \ contested'
        PROVE  owners'[c] = IF rooms'[c] = 0 THEN {} ELSE {rooms'[c]}
    <3>1. c \notin contested /\ (c = code => rooms[code] = 0)
      BY <2>3, <2>5
    <3>2. owners[c] = IF rooms[c] = 0 THEN {} ELSE {rooms[c]}
      BY <3>1, <2>5 DEF RoomsInv, CodeLeadsToOwner, handle_get_room
    <3> QED
      BY Zenon, <3>1, <3>2, <2>1, <2>3, RoomSidsAssumption DEF RoomsInv
  <2> QED
    BY <2>2, <2>4, <2>5 DEF RoomsInv, CodeLeadsToOwner, handle_get_room
<1>3. ASSUME NEW code \in RoomCodes, handle_delete_room(code) PROVE RoomsInv'
  BY Zenon, <1>3 DEF handle_delete_room, RoomsInv, RequestInv, CodeLeadsToOwner, handle_get_room
<1>4. CASE UNCHANGED roomVars
  BY <1>4 DEF roomVars, RoomsInv, RequestInv, CodeLeadsToOwner, handle_get_room
<1> QED
  BY <1>1, <1>2, <1>3, <1>4 DEF RoomsNext

\* A code the relay said to be someone's leads to their session until it is deleted,
\* unless two creations both found it free (register_room of router.rs).
THEOREM CodesLeadToOwners == RoomsSpec => []CodeLeadsToOwner
<1>1. RoomsInv => CodeLeadsToOwner
  BY DEF RoomsInv
<1> QED
  BY RoomsInitInv, RoomsNextInv, <1>1, PTL DEF RoomsSpec

-----------------------------------------------------------------------------
(* The bitrate *)

\* A task in update() runs on a session that could be created, and has loaded a number.
RateInv ==
  /\ max_bitrate \in Nat
  /\ updater.at = "loaded" => MinBitrate <= max_bitrate /\ updater.current \in Nat
  /\ BitrateInRange

LEMMA ClampInRange ==
  ASSUME max_bitrate \in Nat, MinBitrate <= max_bitrate, NEW b \in Int
  PROVE  Clamp(b) \in MinBitrate..max_bitrate
  BY BitrateAssumption DEF Clamp

LEMMA RateInitInv == RateInit => RateInv
  BY BitrateAssumption DEF RateInit, RateInv, BitrateInRange

LEMMA RateNextInv == RateInv /\ [RateNext]_rateVars => RateInv'
<1> SUFFICES ASSUME RateInv, [RateNext]_rateVars PROVE RateInv'
  OBVIOUS
<1> USE BitrateAssumption
<1>1. CASE UNCHANGED <<bitrate, max_bitrate, updater>>
  BY <1>1 DEF RateInv, BitrateInRange
<1>2. CASE UpdateLoads
  <2>1. MinBitrate <= max_bitrate /\ bitrate \in Nat
    BY <1>2 DEF UpdateLoads, RateInv, BitrateInRange
  <2> QED
    BY <1>2, <2>1 DEF UpdateLoads, RateInv, BitrateInRange
<1>3. CASE UpdateStores
  <2> DEFINE new == NewBitrate(updater.current, updater.lost, updater.slow)
  <2>1. MinBitrate <= max_bitrate /\ updater.current \in Nat /\ max_bitrate \in Nat
    BY <1>3 DEF UpdateStores, RateInv
  <2>2. new \in Int
    BY <2>1 DEF NewBitrate
  <2>3. Clamp(new) \in MinBitrate..max_bitrate
    BY <2>1, <2>2, ClampInRange
  <2>4. /\ bitrate' = Clamp(new)
        /\ max_bitrate' = max_bitrate
        /\ updater' = [at |-> "idle"]
    BY <1>3 DEF UpdateStores
  <2> QED
    BY SMTT(60), <2>1, <2>3, <2>4 DEF RateInv, BitrateInRange
<1>4. ASSUME NEW b \in Requests, set_bitrate(b) PROVE RateInv'
  <2>1. MinBitrate <= max_bitrate /\ max_bitrate \in Nat
    BY <1>4 DEF set_bitrate, RateInv, BitrateInRange
  <2>2. Clamp(b) \in MinBitrate..max_bitrate
    BY <2>1, ClampInRange
  <2> QED
    BY <1>4, <2>1, <2>2 DEF set_bitrate, RateInv, BitrateInRange
<1>5. CASE FrameSent
  BY Zenon, <1>1, <1>5 DEF FrameSent
<1>6. ASSUME NEW n \in frames.inFlight, FrameLost(n) \/ FrameArrives(n) PROVE RateInv'
  BY Zenon, <1>1, <1>6 DEF FrameLost, FrameArrives
<1>7. CASE UNCHANGED rateVars
  BY SMTT(60), <1>1, <1>7 DEF rateVars
<1> QED
  BY SMTT(60), <1>2, <1>3, <1>4, <1>5, <1>6, <1>7 DEF RateNext

\* The bitrate that CongestionController stores is in its range (clamp in update() and
\* set_bitrate() of congestion.rs), unless Session::new aborted.
THEOREM BitrateStaysInRange == RateSpec => []BitrateInRange
<1>1. RateInv => BitrateInRange
  BY DEF RateInv
<1> QED
  BY RateInitInv, RateNextInv, <1>1, PTL DEF RateSpec

-----------------------------------------------------------------------------
(* The loss window *)

\* h is the newest frame that has arrived, and the bitmap counts back from it.
WindowAt(h) ==
  /\ \A n \in frames.arrived : n <= h
  /\ high_seq = (Start + h) % SeqSpace
  /\ bitmap \subseteq 0..(Width - 1)
  /\ \A i \in 0..(Width - 1) : h - i \in frames.arrived => i \in bitmap
  /\ ~jumped => \A i \in bitmap : h - i \in frames.arrived

FramesInv ==
  /\ frames \in [sent : 0..MaxFrames, inFlight : SUBSET Nat, arrived : SUBSET Nat]
  /\ \A n \in frames.inFlight \cup frames.arrived : n < frames.sent

WindowInv ==
  /\ FramesInv /\ initialised \in BOOLEAN /\ jumped \in BOOLEAN
  /\ ~initialised => frames.arrived = {} /\ bitmap = {}
  /\ initialised => \E h \in frames.arrived : WindowAt(h)

\* The loss that update() works with is no more than what did not arrive.
LoadedInv ==
  updater.at = "loaded" =>
    updater.lost \in Int /\ updater.truth \in Int /\ updater.lost <= updater.truth

LEMMA WindowSizes ==
  /\ Width \in Nat \ {0} /\ Start \in Nat /\ MaxFrames \in Nat
  /\ SeqSpace \in Nat \ {0} /\ 2 * MaxFrames <= SeqSpace
  BY WindowAssumption

\* The signed difference of two sequence numbers is that of the frames.
LEMMA SignedDifference ==
  ASSUME NEW n \in 0..(MaxFrames - 1), NEW h \in 0..(MaxFrames - 1)
  PROVE  Signed(((Start + n) % SeqSpace) - ((Start + h) % SeqSpace)) = n - h
<1> PICK a : a = Start + n
  OBVIOUS
<1> PICK b : b = Start + h
  OBVIOUS
<1> DEFINE S == SeqSpace
           r == a % S
           t == b % S
           p == a \div S
           q == b \div S
           d == r - t
           half == S \div 2
           k == q - p
<1>1. /\ S \in Nat \ {0} /\ a \in Int /\ b \in Int /\ n - h = a - b
      /\ n - h < MaxFrames /\ h - n < MaxFrames /\ 2 * MaxFrames <= S /\ MaxFrames \in Nat
      /\ n - h \in Int
  BY WindowSizes
<1>2. a = S * p + r /\ p \in Int /\ r \in 0 .. S - 1
  BY Zenon, <1>1, Divided
<1>3. b = S * q + t /\ q \in Int /\ t \in 0 .. S - 1
  BY Zenon, <1>1, Divided
<1>4. half \in Int /\ 2 * half <= S /\ S <= 2 * half + 1
  BY <1>1
<1>5. d \in Int /\ d = r - t
  BY SMTT(60), <1>1, <1>2, <1>3
<1> DEFINE m == d % S
<1>6. ASSUME n - h >= 0 PROVE m = n - h
  <2> PICK e : e = n - h
    OBVIOUS
  <2> HIDE DEF S, r, t, p, q, d, k, half
  <2>1. k \in Int /\ S * k = S * q - S * p /\ S * p \in Int /\ S * q \in Int
    BY <1>1, <1>2, <1>3, Z3 DEF k
  <2>2. d = S * k + e
    BY SMTT(60), <1>1, <1>2, <1>3, <1>5, <2>1
  <2>3. e \in 0 .. S - 1
    BY <1>1, <1>6
  <2>4. d % S = e
    BY ONLY ZenonT(30), <1>1, <1>5, <2>1, <2>2, <2>3, RemainderIs
  <2> QED
    BY <2>4
<1>7. ASSUME n - h < 0 PROVE m = (n - h) + S
  <2> PICK e : e = (n - h) + S
    OBVIOUS
  <2> HIDE DEF S, r, t, p, q, d, half
  <2> DEFINE j == k - 1
  <2>1. /\ j \in Int /\ S * j = S * q - S * p - S /\ S * p \in Int /\ S * q \in Int
    BY <1>1, <1>2, <1>3, Z3 DEF k
  <2> HIDE DEF j, k
  <2>2. d = S * j + e
    BY <1>1, <1>2, <1>3, <1>5, <2>1
  <2>3. e \in 0 .. S - 1
    BY <1>1, <1>7
  <2>4. d % S = e
    BY ONLY ZenonT(30), <1>1, <1>5, <2>1, <2>2, <2>3, RemainderIs
  <2> QED
    BY <2>4
<1>8. Signed(d) = IF m < half THEN m ELSE m - S
  BY DEF Signed
<1> HIDE DEF m, half, d, S
<1>9. Signed(d) = n - h
  BY <1>1, <1>4, <1>6, <1>7, <1>8
<1> QED
  BY <1>9 DEF d, S

LEMMA LesserOfTwo ==
  ASSUME NEW a \in Int, NEW b \in Int
  PROVE  Min({a, b}) = IF a <= b THEN a ELSE b
  BY DEF Min

\* The shift of a u64: by less than the width it is one, by the whole width it is none.
LEMMA ShiftAmount ==
  ASSUME NEW d \in Nat \ {0}
  PROVE  Min({d, Width}) % Width = IF d < Width THEN d ELSE 0
<1>1. Width \in Nat \ {0} /\ Width \in Int /\ d \in Int
  BY WindowSizes
<1>2. CASE d < Width
  <2>1. Min({d, Width}) = d
    BY <1>1, <1>2, LesserOfTwo
  <2>2. d = Width * 0 + d /\ 0 \in Int /\ d \in 0 .. Width - 1
    BY <1>1, <1>2
  <2>3. d % Width = d
    BY Zenon, <1>1, <2>2, RemainderIs
  <2> QED
    BY <1>2, <2>1, <2>3
<1>3. CASE d >= Width
  <2>1. Min({d, Width}) = Width
    BY SMTT(60), <1>1, <1>3, LesserOfTwo
  <2>2. Width = Width * 1 + 0 /\ 1 \in Int /\ 0 \in 0 .. Width - 1
    BY <1>1
  <2>3. Width % Width = 0
    BY ZenonT(30), <1>1, <2>2, RemainderIs
  <2> QED
    BY SMTT(60), <1>1, <1>3, <2>1, <2>3
<1> QED
  BY <1>1, <1>2, <1>3

LEMMA NewestIs ==
  ASSUME FramesInv, NEW h \in frames.arrived, \A n \in frames.arrived : n <= h
  PROVE  Newest = h
<1>1. frames.arrived \subseteq Int
  BY DEF FramesInv
<1>2. \A x \in frames.arrived : (\A y \in frames.arrived : x >= y) => x = h
  BY <1>1
<1>3. \A y \in frames.arrived : h >= y
  BY <1>1
<1> QED
  BY <1>2, <1>3 DEF Newest, Max

\* record(): the window of the newest frame, for a frame that is newer, older or again
\* the newest.
LEMMA RecordKeeps ==
  ASSUME FramesInv, FramesInv', NEW n \in frames.inFlight, NEW h \in frames.arrived,
         WindowAt(h), initialised, jumped \in BOOLEAN,
         frames'.arrived = frames.arrived \cup {n},
         jumped' = (jumped \/ n >= h + Width), record((Start + n) % SeqSpace)
  PROVE  \E g \in frames'.arrived : WindowAt(g)'
<1> DEFINE diff == Signed(((Start + n) % SeqSpace) - high_seq)
<1>1. n \in 0..(MaxFrames - 1) /\ h \in 0..(MaxFrames - 1) /\ frames.arrived \subseteq Nat
  BY WindowSizes DEF FramesInv
<1>2. diff = n - h /\ n \in Int /\ h \in Int /\ Width \in Nat \ {0}
  <2>1. high_seq = (Start + h) % SeqSpace
    BY DEF WindowAt
  <2>2. diff = n - h
    BY ZenonT(30), <1>1, <2>1, SignedDifference
  <2> QED
    BY SMTT(60), <1>1, <2>2, WindowSizes
<1>3. /\ high_seq' = IF diff > 0 THEN (Start + n) % SeqSpace ELSE high_seq
      /\ bitmap' = IF diff > 0 THEN ShiftLeft(bitmap, Min({diff, Width})) \cup {0}
                   ELSE IF diff < 0 /\ -diff < Width THEN bitmap \cup {-diff}
                   ELSE bitmap
  BY DEF record
<1> HIDE DEF diff
<1>4. CASE n > h
  <2> PICK d : d = n - h
    OBVIOUS
  <2>1. d \in Nat \ {0} /\ diff = d /\ diff > 0
    BY SMTT(60), <1>2, <1>4
  <2> PICK k : k = IF d < Width THEN d ELSE 0
    OBVIOUS
  <2>2. Min({diff, Width}) % Width = k
    BY SMTT(60), <2>1, ShiftAmount
  <2>3. bitmap' = ({b + k : b \in bitmap} \cap 0..(Width - 1)) \cup {0}
    BY SMTT(60), <1>3, <2>1, <2>2 DEF ShiftLeft
  <2>4. high_seq' = (Start + n) % SeqSpace
    BY SMTT(60), <1>3, <2>1
  <2>5. bitmap \subseteq 0..(Width - 1) /\ 0 \in 0..(Width - 1)
    BY SMTT(60), <1>2 DEF WindowAt
  <2>6. bitmap' \subseteq 0..(Width - 1)
    BY SMTT(60), <2>3, <2>5
  <2>7. \A x \in frames'.arrived : x <= n
    BY SMTT(60), <1>1, <1>2, <1>4 DEF WindowAt
  <2>8. ASSUME NEW i \in 0..(Width - 1), n - i \in frames'.arrived PROVE i \in bitmap'
    <3>1. CASE i = 0
      BY SMTT(60), <2>3, <3>1
    <3>2. CASE i # 0
      <4>1. n - i \in frames.arrived
        BY SMTT(60), <1>2, <2>8, <3>2
      <4>2. n - i <= h /\ i - d \in 0..(Width - 1) /\ d < Width /\ h - (i - d) = n - i
        BY SMTT(60), <1>1, <1>2, <2>1, <4>1 DEF WindowAt
      <4>3. i - d \in bitmap
        BY SMTT(60), <4>1, <4>2 DEF WindowAt
      <4>4. i = (i - d) + k
        BY SMTT(60), <1>2, <2>1, <4>2
      <4> QED
        BY SMTT(60), <2>3, <4>3, <4>4
    <3> QED
      BY SMTT(60), <3>1, <3>2
  <2>9. ASSUME ~jumped', NEW i \in bitmap' PROVE n - i \in frames'.arrived
    <3>0. ~jumped /\ ~(n >= h + Width)
      BY ZenonT(30), <2>9
    <3>1. ~jumped /\ d < Width /\ k = d
      BY SMTT(60), <1>2, <2>1, <3>0
    <3>2. CASE i = 0
      BY SMTT(60), <1>2, <3>2
    <3>3. CASE i # 0
      <4>1. PICK b \in bitmap : i = b + d
        BY Zenon, <2>3, <2>9, <3>1, <3>3
      <4>2. h - b \in frames.arrived
        BY SMTT(60), <3>1 DEF WindowAt
      <4>3. n - i = h - b
        BY SMTT(60), <1>2, <2>5, <4>1
      <4> QED
        BY SMTT(60), <4>2, <4>3
    <3> QED
      BY <3>2, <3>3
  <2>10. WindowAt(n)'
    BY Zenon, <2>4, <2>6, <2>7, <2>8, <2>9 DEF WindowAt
  <2> QED
    BY <2>10
<1>5. CASE n <= h
  <2> PICK d : d = h - n
    OBVIOUS
  <2>1. d \in Nat /\ diff = -d /\ n = h - d /\ -diff = d
    BY <1>2, <1>5
  <2>2. /\ high_seq' = high_seq
        /\ bitmap' = IF d # 0 /\ d < Width THEN bitmap \cup {d} ELSE bitmap
    <3>1. ~(diff > 0) /\ (diff < 0 <=> d # 0)
      BY SMTT(60), <1>2, <2>1
    <3> QED
      BY ZenonT(30), <1>3, <2>1, <3>1
  <2>3. \A x \in frames'.arrived : x <= h
    BY <1>5 DEF WindowAt
  <2>4. bitmap' \subseteq 0..(Width - 1)
    <3>1. bitmap \subseteq 0..(Width - 1)
      BY DEF WindowAt
    <3> QED
      BY SMTT(60), <1>2, <2>1, <2>2, <3>1
  <2>5. ASSUME NEW i \in 0..(Width - 1), h - i \in frames'.arrived PROVE i \in bitmap'
    <3>1. CASE h - i \in frames.arrived
      BY SMTT(60), <2>2, <3>1 DEF WindowAt
    <3>2. CASE h - i = n
      <4>1. i = d
        BY SMTT(60), <1>2, <2>1, <3>2
      <4>2. CASE d = 0
        <5>1. h - 0 \in frames.arrived /\ 0 \in 0..(Width - 1)
          BY SMTT(60), <1>2
        <5>2. 0 \in bitmap
          BY SMTT(60), <5>1 DEF WindowAt
        <5> QED
          BY Zenon, <2>2, <4>1, <4>2, <5>2
      <4>3. CASE d # 0
        BY SMTT(60), <1>2, <2>2, <4>1, <4>3
      <4> QED
        BY Zenon, <4>2, <4>3
    <3> QED
      BY Zenon, <2>5, <3>1, <3>2
  <2>6. ASSUME ~jumped', NEW i \in bitmap' PROVE h - i \in frames'.arrived
    <3>1. CASE i \in bitmap
      BY SMTT(60), <2>6, <3>1 DEF WindowAt
    <3>2. CASE i = d
      BY Zenon, <2>1, <3>2
    <3> QED
      BY Zenon, <2>2, <2>6, <3>1, <3>2
  <2>7. WindowAt(h)'
    BY SMTT(60), <2>2, <2>3, <2>4, <2>5, <2>6 DEF WindowAt
  <2> QED
    BY SMTT(60), <2>7
<1> QED
  BY SMTT(60), <1>2, <1>4, <1>5

LEMMA ArrivalKeeps ==
  ASSUME WindowInv, NEW n \in frames.inFlight, FrameArrives(n)
  PROVE  WindowInv'
<1>1. /\ FramesInv /\ initialised \in BOOLEAN /\ jumped \in BOOLEAN
      /\ ~initialised => frames.arrived = {} /\ bitmap = {}
  BY DEF WindowInv
<1>2. /\ frames' = [sent |-> frames.sent, inFlight |-> frames'.inFlight,
                    arrived |-> frames.arrived \cup {n}]
      /\ frames'.inFlight \subseteq frames.inFlight
      /\ frames'.arrived = frames.arrived \cup {n} /\ frames'.sent = frames.sent
  BY ZenonT(30), <1>1 DEF FrameArrives, FramesInv
<1>3. FramesInv'
  <2>1. /\ frames.sent \in 0..MaxFrames /\ frames.inFlight \subseteq Nat
        /\ frames.arrived \subseteq Nat /\ n \in Nat
    BY <1>1 DEF FramesInv
  <2>2. frames' \in [sent : 0..MaxFrames, inFlight : SUBSET Nat, arrived : SUBSET Nat]
    BY <1>2, <2>1
  <2> QED
    BY <1>1, <1>2, <2>2 DEF FramesInv
<1>4. /\ initialised' = TRUE /\ record((Start + n) % SeqSpace)
      /\ jumped' = (jumped \/ (initialised /\ n >= Newest + Width))
  BY DEF FrameArrives, record
<1>5. CASE ~initialised
  <2>1. /\ high_seq' = (Start + n) % SeqSpace /\ bitmap' = {0} /\ frames'.arrived = {n}
    BY SMTT(60), <1>1, <1>2, <1>4, <1>5 DEF record
  <2>2. n \in Int /\ Width \in Nat \ {0}
    BY SMTT(60), <1>1, WindowSizes DEF FramesInv
  <2>3. WindowAt(n)'
    BY SMTT(60), <2>1, <2>2 DEF WindowAt
  <2> QED
    BY Zenon, <1>1, <1>3, <1>4, <2>1, <2>3 DEF WindowInv
<1>6. CASE initialised
  <2>1. PICK h \in frames.arrived : WindowAt(h)
    BY SMTT(60), <1>6 DEF WindowInv
  <2>2. Newest = h
    BY <1>1, <2>1, NewestIs DEF WindowAt
  <2>3. jumped' = (jumped \/ n >= h + Width)
    BY ZenonT(30), <1>4, <1>6, <2>2
  <2>4. \E g \in frames'.arrived : WindowAt(g)'
    BY Zenon, <1>1, <1>2, <1>3, <1>4, <1>6, <2>1, <2>3, RecordKeeps
  <2>5. jumped' \in BOOLEAN
    BY Zenon, <2>3
  <2> QED
    BY SMTT(60), <1>3, <1>4, <2>4, <2>5 DEF WindowInv
<1> QED
  BY SMTT(60), <1>5, <1>6

LEMMA WindowNextInv == WindowInv /\ [RateNext]_rateVars => WindowInv'
<1> SUFFICES ASSUME WindowInv, [RateNext]_rateVars PROVE WindowInv'
  OBVIOUS
<1>1. /\ FramesInv /\ initialised \in BOOLEAN /\ jumped \in BOOLEAN
      /\ ~initialised => frames.arrived = {} /\ bitmap = {}
      /\ initialised => \E h \in frames.arrived : WindowAt(h)
  BY SMTT(60) DEF WindowInv
<1>2. ASSUME FramesInv', frames'.arrived = frames.arrived,
             UNCHANGED <<bitmap, high_seq, initialised, jumped>>
      PROVE  WindowInv'
  BY <1>1, <1>2 DEF WindowInv, WindowAt
<1>3. CASE FrameSent
  <2>1. /\ frames' = [sent |-> frames.sent + 1,
                      inFlight |-> frames.inFlight \cup {frames.sent},
                      arrived |-> frames.arrived]
        /\ frames.sent < MaxFrames
    BY ZenonT(30), <1>1, <1>3 DEF FrameSent, FramesInv
  <2>2. FramesInv'
    <3>1. /\ frames.sent \in 0..MaxFrames /\ frames.inFlight \subseteq Nat
          /\ frames.arrived \subseteq Nat
      BY <1>1 DEF FramesInv
    <3>2. frames' \in [sent : 0..MaxFrames, inFlight : SUBSET Nat, arrived : SUBSET Nat]
      BY <2>1, <3>1, WindowSizes
    <3>3. \A n \in frames'.inFlight \cup frames'.arrived : n < frames'.sent
      BY <1>1, <2>1, <3>1 DEF FramesInv
    <3> QED
      BY <3>2, <3>3 DEF FramesInv
  <2> QED
    BY SMTT(60), <1>2, <1>3, <2>1, <2>2 DEF FrameSent
<1>4. ASSUME NEW n \in frames.inFlight, FrameLost(n) PROVE WindowInv'
  <2>1. frames' = [sent |-> frames.sent, inFlight |-> frames.inFlight \ {n},
                   arrived |-> frames.arrived]
    BY SMTT(60), <1>1, <1>4 DEF FrameLost, FramesInv
  <2>2. FramesInv'
    BY SMTT(60), <1>1, <2>1 DEF FramesInv
  <2> QED
    BY SMTT(60), <1>2, <1>4, <2>1, <2>2 DEF FrameLost
<1>5. ASSUME NEW n \in frames.inFlight, FrameArrives(n) PROVE WindowInv'
  BY SMTT(60), <1>5, ArrivalKeeps
<1>6. CASE UNCHANGED <<frames, bitmap, high_seq, initialised, jumped>>
  BY Zenon, <1>1, <1>2, <1>6 DEF FramesInv
<1>7. CASE UpdateLoads \/ UpdateStores
  BY SMTT(60), <1>6, <1>7 DEF UpdateLoads, UpdateStores
<1>8. ASSUME NEW b \in Requests, set_bitrate(b) PROVE WindowInv'
  BY SMTT(60), <1>6, <1>8 DEF set_bitrate
<1>9. CASE UNCHANGED rateVars
  BY <1>6, <1>9 DEF rateVars
<1> QED
  BY Zenon, <1>3, <1>4, <1>5, <1>7, <1>8, <1>9 DEF RateNext

LEMMA WindowInitInv == RateInit => WindowInv
<1> SUFFICES ASSUME RateInit PROVE WindowInv
  BY Zenon
<1>1. frames = [sent |-> 0, inFlight |-> {}, arrived |-> {}]
  BY SMTT(60) DEF RateInit
<1>2. FramesInv
  BY SMTT(60), <1>1, WindowSizes DEF FramesInv
<1>3. frames.arrived = {}
  BY <1>1
<1>4. bitmap = {} /\ initialised = FALSE /\ jumped = FALSE
  BY Zenon DEF RateInit
<1> QED
  BY ZenonT(30), <1>2, <1>3, <1>4, Zenon DEF WindowInv

\* loss_percent() of loss.rs counts exactly the packets of the window that did not
\* arrive, for every width of the bitmap and every modulus of the sequence number, until
\* a frame is a whole window ahead; it never counts a packet as lost that did arrive.
THEOREM LossWindowStaysExact == RateSpec => []LossWindowExact
<1>1. WindowInv => LossWindowExact
  <2> SUFFICES ASSUME WindowInv PROVE LossWindowExact
    OBVIOUS
  <2>1. FramesInv /\ initialised \in BOOLEAN
    BY DEF WindowInv
  <2>2. CASE ~initialised
    BY SMTT(60), <2>2 DEF WindowInv, LossWindowExact
  <2>3. CASE initialised
    <3>1. PICK h \in frames.arrived : WindowAt(h)
      BY <2>3 DEF WindowInv
    <3>2. Newest = h
      BY <2>1, <3>1, NewestIs DEF WindowAt
    <3> QED
      BY ZenonT(30), <2>3, <3>1, <3>2 DEF LossWindowExact, WindowAt
  <2> QED
    BY SMTT(60), <2>1, <2>2, <2>3
<1> QED
  BY <1>1, WindowInitInv, WindowNextInv, PTL DEF RateSpec

\* What loss_percent() reports is no more than what did not arrive.
LEMMA LostIsLost ==
  ASSUME WindowInv
  PROVE  Lost \in Int /\ TrulyLost \in Int /\ Lost <= TrulyLost
<1>1. CASE ~initialised
  BY SMTT(60), <1>1 DEF WindowInv, Lost, TrulyLost
<1>2. CASE initialised
  <2>1. FramesInv
    BY SMTT(60) DEF WindowInv
  <2>2. PICK h \in frames.arrived : WindowAt(h)
    BY <1>2 DEF WindowInv
  <2>3. Newest = h
    BY SMTT(60), <2>1, <2>2, NewestIs DEF WindowAt
  <2> DEFINE all == 0..(Width - 1)
             gone == {i \in all : h - i \notin frames.arrived}
  <2>4. {i \in all : h - i \in frames.arrived} \subseteq bitmap /\ bitmap \subseteq all
    BY SMTT(60), <2>2 DEF WindowAt
  <2>5. all \ bitmap \subseteq gone /\ gone \subseteq all
    BY SMTT(60), <2>4
  <2>6. IsFiniteSet(all) /\ Cardinality(all) = Width
    BY SMTT(60), FS_Interval, WindowSizes
  <2> HIDE DEF all, gone
  <2>7. IsFiniteSet(bitmap) /\ IsFiniteSet(gone) /\ bitmap \cap all = bitmap
    BY Zenon, <2>4, <2>5, <2>6, FS_Subset
  <2>8. Cardinality(all \ bitmap) = Width - Cardinality(bitmap)
    BY SMTT(60), <2>6, <2>7, FS_Difference
  <2>9. /\ Cardinality(all \ bitmap) <= Cardinality(gone)
        /\ Cardinality(bitmap) \in Nat /\ Cardinality(gone) \in Nat
    BY SMTT(60), <2>5, <2>7, FS_Subset, FS_CardinalityType
  <2>10. Lost = Width - Cardinality(bitmap)
    BY SMTT(60), <1>2 DEF Lost
  <2>11. TrulyLost = Cardinality(gone)
    BY SMTT(60), <2>2, <2>3 DEF TrulyLost, all, gone
  <2> QED
    BY SMTT(60), <2>8, <2>9, <2>10, <2>11, WindowSizes
<1> QED
  BY <1>1, <1>2 DEF WindowInv

LEMMA LoadedNextInv == WindowInv /\ LoadedInv /\ [RateNext]_rateVars => LoadedInv'
<1> SUFFICES ASSUME WindowInv, LoadedInv, [RateNext]_rateVars PROVE LoadedInv'
  OBVIOUS
<1>1. CASE UNCHANGED updater
  BY SMTT(60), <1>1 DEF LoadedInv
<1>2. CASE UpdateLoads
  <2>1. PICK slow \in BOOLEAN :
          updater' = [at |-> "loaded", current |-> bitrate, slow |-> slow,
                      lost |-> Lost, truth |-> TrulyLost]
    BY SMTT(60), <1>2 DEF UpdateLoads
  <2>2. updater'.lost = Lost /\ updater'.truth = TrulyLost
    BY Zenon, <2>1
  <2> QED
    BY SMTT(60), <2>2, LostIsLost DEF LoadedInv
<1>3. CASE UpdateStores
  BY <1>3 DEF UpdateStores, LoadedInv
<1>4. ASSUME NEW b \in Requests, set_bitrate(b) PROVE LoadedInv'
  BY Zenon, <1>1, <1>4 DEF set_bitrate
<1>5. CASE FrameSent
  BY Zenon, <1>1, <1>5 DEF FrameSent
<1>6. ASSUME NEW n \in frames.inFlight, FrameLost(n) \/ FrameArrives(n) PROVE LoadedInv'
  BY ZenonT(30), <1>1, <1>6 DEF FrameLost, FrameArrives
<1>7. CASE UNCHANGED rateVars
  BY SMTT(60), <1>1, <1>7 DEF rateVars
<1> QED
  BY SMTT(60), <1>2, <1>3, <1>4, <1>5, <1>6, <1>7 DEF RateNext

\* A step that ends an update and lowers the bitrate has a cause.
LoweredForCause ==
  updater.at = "loaded" /\ updater'.at = "idle" /\ bitrate' < bitrate =>
    100 * updater.truth > 5 * Width \/ updater.slow \/ bitrate # updater.current

LEMMA StoreHasCause == RateInv /\ LoadedInv /\ [RateNext]_rateVars => [LoweredForCause]_rateVars
<1> SUFFICES ASSUME RateInv, LoadedInv, RateNext, updater.at = "loaded",
                    updater'.at = "idle", bitrate' < bitrate, ~updater.slow,
                    bitrate = updater.current
             PROVE  100 * updater.truth > 5 * Width
  BY SMTT(60) DEF LoweredForCause
<1>1. UpdateStores
  <2>1. UNCHANGED updater => FALSE
    OBVIOUS
  <2>2. FrameSent \/ UpdateLoads => FALSE
    BY Zenon, <2>1 DEF FrameSent, UpdateLoads
  <2>3. ASSUME NEW n \in frames.inFlight, FrameLost(n) \/ FrameArrives(n) PROVE FALSE
    BY Zenon, <2>1, <2>3 DEF FrameLost, FrameArrives
  <2>4. ASSUME NEW b \in Requests, set_bitrate(b) PROVE FALSE
    BY ZenonT(30), <2>1, <2>4 DEF set_bitrate
  <2> QED
    BY SMTT(60), <2>2, <2>3, <2>4 DEF RateNext
<1>2. /\ bitrate \in MinBitrate..max_bitrate /\ max_bitrate \in Nat
      /\ MinBitrate \in Nat /\ Increment \in Nat
  BY SMTT(60), BitrateAssumption DEF RateInv, BitrateInRange
<1>3. Clamp(bitrate + Increment) >= bitrate
  BY SMTT(60), <1>2 DEF Clamp
<1>4. bitrate' = Clamp(NewBitrate(bitrate, updater.lost, updater.slow))
  BY SMTT(60), <1>1 DEF UpdateStores
<1>5. Clamp(bitrate + Increment) \in Int
  BY SMTT(60), <1>2 DEF Clamp
<1>6. NewBitrate(bitrate, updater.lost, updater.slow) # bitrate + Increment
  BY SMTT(60), <1>2, <1>3, <1>4, <1>5
<1>7. 100 * updater.lost > 5 * Width
  BY ZenonT(30), <1>6 DEF NewBitrate
<1>8. updater.lost \in Int /\ updater.truth \in Int /\ updater.lost <= updater.truth
  BY DEF LoadedInv
<1> QED
  BY SMTT(60), <1>7, <1>8, WindowSizes

\* The action property of congestion.rs and loss.rs together: a step of update() that
\* lowers the bitrate has its cause in what really arrived, in the round trip time, or
\* in a request of the peer that came between the load and the store.
THEOREM BitrateLoweredForCause == RateSpec => LowersForCause
<1>1. RateInit => LoadedInv
  BY DEF RateInit, LoadedInv
<1>2. [LoweredForCause]_rateVars <=>
        [updater.at = "loaded" /\ updater'.at = "idle" /\ bitrate' < bitrate =>
           100 * updater.truth > 5 * Width \/ updater.slow \/ bitrate # updater.current]_rateVars
  BY Zenon DEF LoweredForCause
<1> QED
  BY <1>1, <1>2, RateInitInv, RateNextInv, WindowInitInv, WindowNextInv, LoadedNextInv,
     StoreHasCause, PTL DEF RateSpec, LowersForCause

-----------------------------------------------------------------------------
(* The floor *)

FloorInv ==
  /\ floor_state \in {"Idle", "Requested", "Granted", "Released"}
  /\ HolderMatchesState

\* transition() gives a holder to a floor exactly when it takes it.
LEMMA TransitionMatches ==
  ASSUME NEW s \in {"Idle", "Requested", "Granted", "Released"}, NEW h,
         s \in {"Idle", "Released"} <=> h = 0,
         NEW event, NEW ssrc, ssrc # 0, NEW next, next = Transition(s, h, event, ssrc)
  PROVE  /\ next[1] \in {"Idle", "Requested", "Granted", "Released"}
         /\ next[1] \in {"Idle", "Released"} <=> next[2] = 0
<1>1. CASE s = "Idle"
  BY <1>1 DEF Transition
<1>2. CASE s = "Requested"
  BY <1>2 DEF Transition
<1>3. CASE s = "Granted"
  BY <1>3 DEF Transition
<1>4. CASE s = "Released"
  BY <1>4 DEF Transition
<1> QED
  BY SMTT(60), <1>1, <1>2, <1>3, <1>4

LEMMA FloorNextInv == FloorInv /\ [FloorNext]_floorVars => FloorInv'
<1> SUFFICES ASSUME FloorInv, [FloorNext]_floorVars PROVE FloorInv'
  OBVIOUS
<1>1. ASSUME NEW event \in FloorEvents, NEW ssrc \in Ssrcs, FloorEvent(event, ssrc)
      PROVE  FloorInv'
  <2>1. PICK next : next = Transition(floor_state, holder_ssrc, event, ssrc)
    BY SMTT(60)
  <2>2. /\ next[1] \in {"Idle", "Requested", "Granted", "Released"}
        /\ next[1] \in {"Idle", "Released"} <=> next[2] = 0
    BY SMTT(60), <2>1, SsrcAssumption, TransitionMatches DEF FloorInv, HolderMatchesState, is_available
  <2>3. floor_state' = next[1] /\ holder_ssrc' = next[2]
    BY SMTT(60), <1>1, <2>1 DEF FloorEvent
  <2> QED
    BY <2>2, <2>3 DEF FloorInv, HolderMatchesState, is_available
<1>2. CASE UNCHANGED floorVars
  BY <1>2 DEF floorVars, FloorInv, HolderMatchesState, is_available
<1> QED
  BY SMTT(60), <1>1, <1>2 DEF FloorNext

\* A floor that is_available() of floor.rs offers has no holder, and any other has one,
\* whatever the participants are and whatever events they send.
THEOREM HolderStaysMatched == FloorSpec => []HolderMatchesState
<1>1. FloorInit => FloorInv
  BY DEF FloorInit, FloorInv, HolderMatchesState, is_available
<1>2. FloorInv => HolderMatchesState
  BY DEF FloorInv
<1> QED
  BY <1>1, <1>2, FloorNextInv, PTL DEF FloorSpec

-----------------------------------------------------------------------------
(* Reassembly *)

Filled(t, b) == {i \in 0..(t - 1) : b[i] # Missing}

\* A reassembler of t fragments with b in its slots: each slot is empty or holds its own
\* fragment, and the count is that of the filled ones.
Open(t, n, b) ==
  /\ reassembler = [at |-> "open", expected_total |-> t, received |-> n, buffers |-> b]
  /\ b \in [0..(t - 1) -> Int]
  /\ \A i \in 0..(t - 1) : b[i] \in {Missing, i}
  /\ n = Cardinality(Filled(t, b))

ReassemblyInv ==
  \/ \E t \in Nat \ {0}, n \in Nat : \E b \in [0..(t - 1) -> Int] : Open(t, n, b)
  \/ reassembler.at # "open" /\ FrameRebuilt

LEMMA ReassemblyInitInv == ReassemblyInit => ReassemblyInv
<1> SUFFICES ASSUME ReassemblyInit PROVE ReassemblyInv
  OBVIOUS
<1>1. PICK total \in Totals :
        reassembler =
          IF total = 0 \/ total > MaxFragments THEN [at |-> "TooManyFragments"]
          ELSE [at |-> "open", expected_total |-> total, received |-> 0,
                buffers |-> [i \in 0..(total - 1) |-> Missing]]
  BY Zenon DEF ReassemblyInit
<1>2. CASE total = 0 \/ total > MaxFragments
  BY SMTT(60), <1>1, <1>2 DEF ReassemblyInv, FrameRebuilt
<1>3. CASE ~(total = 0 \/ total > MaxFragments)
  <2> DEFINE b == [i \in 0..(total - 1) |-> Missing]
  <2>1. Filled(total, b) = {}
    BY DEF Filled
  <2>2. Cardinality(Filled(total, b)) = 0
    BY ZenonT(30), <2>1, FS_EmptySet
  <2>3. total \in Nat \ {0} /\ b \in [0..(total - 1) -> Int]
    BY SMTT(60), <1>3, FragmentAssumption DEF Missing
  <2>4. Open(total, 0, b)
    BY Zenon, <1>1, <1>3, <2>2, <2>3 DEF Open
  <2> QED
    BY SMTT(60), <2>3, <2>4 DEF ReassemblyInv
<1> QED
  BY Zenon, <1>2, <1>3

LEMMA FilledIsFinite ==
  ASSUME NEW t \in Nat, NEW b
  PROVE  /\ IsFiniteSet(Filled(t, b)) /\ Cardinality(Filled(t, b)) \in Nat
         /\ Cardinality(Filled(t, b)) = t => Filled(t, b) = 0..(t - 1)
<1>1. IsFiniteSet(0..(t - 1)) /\ Cardinality(0..(t - 1)) = t
  BY FS_Interval
<1>2. Filled(t, b) \subseteq 0..(t - 1)
  BY DEF Filled
<1> QED
  BY SMTT(60), <1>1, <1>2, FS_Subset, FS_CardinalityType

LEMMA InsertKeeps ==
  ASSUME NEW t \in Nat \ {0}, NEW n \in Nat, NEW b, Open(t, n, b), NEW index \in Nat,
         Insert(index)
  PROVE  ReassemblyInv'
<1>1. /\ reassembler = [at |-> "open", expected_total |-> t, received |-> n, buffers |-> b]
      /\ b \in [0..(t - 1) -> Int] /\ n = Cardinality(Filled(t, b))
      /\ \A i \in 0..(t - 1) : b[i] \in {Missing, i}
  BY SMTT(60) DEF Open
<1>2. CASE index >= t \/ b[index] # Missing
  <2>1. UNCHANGED reassembler
    BY Zenon, <1>1, <1>2 DEF Insert
  <2>2. Open(t, n, b)'
    BY SMTT(60), <1>1, <2>1 DEF Open
  <2> QED
    BY SMTT(60), <1>1, <2>2 DEF ReassemblyInv
<1>3. CASE ~(index >= t \/ b[index] # Missing)
  <2>1. index \in 0..(t - 1) /\ b[index] = Missing
    BY SMTT(60), <1>3
  <2>2. PICK c : c = [b EXCEPT ![index] = index]
    BY Zenon
  <2>3. reassembler' = [at |-> "open", expected_total |-> t, received |-> n + 1, buffers |-> c]
    BY ZenonT(30), <1>1, <1>3, <2>2 DEF Insert
  <2>4. /\ c \in [0..(t - 1) -> Int] /\ \A i \in 0..(t - 1) : c[i] \in {Missing, i}
    BY SMTT(60), <1>1, <2>1, <2>2
  <2>5. index # Missing
    BY SMTT(60) DEF Missing
  <2>6. Filled(t, c) = Filled(t, b) \cup {index} /\ index \notin Filled(t, b)
    BY SMTT(60), <1>1, <2>1, <2>2, <2>5 DEF Filled
  <2>7. Cardinality(Filled(t, c)) = n + 1
    BY ZenonT(30), <1>1, <2>6, FilledIsFinite, FS_AddElement
  <2>8. Open(t, n + 1, c)'
    BY <2>3, <2>4, <2>7 DEF Open
  <2>9. n + 1 \in Nat
    OBVIOUS
  <2> QED
    BY SMTT(60), <2>4, <2>8, <2>9 DEF ReassemblyInv
<1> QED
  BY Zenon, <1>2, <1>3

\* With every slot filled, the fragment of rank k is fragment k.
LEMMA FinishRebuilds ==
  ASSUME NEW t \in Nat \ {0}, NEW n \in Nat, NEW b, Open(t, n, b), Finish
  PROVE  ReassemblyInv'
<1>1. /\ reassembler = [at |-> "open", expected_total |-> t, received |-> n, buffers |-> b]
      /\ n = Cardinality(Filled(t, b))
      /\ \A i \in 0..(t - 1) : b[i] \in {Missing, i}
  BY Zenon DEF Open
<1>2. CASE n # t
  <2>1. reassembler' = [at |-> "IncompleteReassembly"]
    BY ZenonT(30), <1>1, <1>2 DEF Finish, is_complete
  <2> QED
    BY SMTT(60), <2>1 DEF ReassemblyInv, FrameRebuilt
<1>3. CASE n = t
  <2>1. Filled(t, b) = 0..(t - 1) /\ Present = Filled(t, b)
    BY Zenon, <1>1, <1>3, FilledIsFinite DEF Present, Filled
  <2>2. Cardinality(Present) = t
    BY ZenonT(30), <1>1, <1>3, <2>1
  <2>3. \A i \in 0..(t - 1) : b[i] = i
    BY <1>1, <2>1 DEF Filled
  <2>4. ASSUME NEW i \in Present PROVE Cardinality({j \in Present : j < i}) = i
    <3>1. {j \in Present : j < i} = 0..(i - 1) /\ i \in Nat
      BY SMTT(60), <2>1
    <3>2. Cardinality(0..(i - 1)) = i
      BY SMTT(60), <3>1, FS_Interval
    <3> QED
      BY ZenonT(30), <3>1, <3>2
  <2>5. ASSUME NEW k \in 1..t
        PROVE  (CHOOSE i \in Present : Cardinality({j \in Present : j < i}) = k - 1) = k - 1
    <3>1. k - 1 \in Present /\ Present \subseteq Nat
      BY SMTT(60), <2>1
    <3>2. \A i \in Present : Cardinality({j \in Present : j < i}) = k - 1 <=> i = k - 1
      BY SMTT(60), <2>4
    <3> QED
      BY SMTT(60), <3>1, <3>2
  <2>6. Flattened = [k \in 1..t |-> k - 1]
    <3>1. ASSUME NEW k \in 1..t
          PROVE  reassembler.buffers[CHOOSE i \in Present :
                   Cardinality({j \in Present : j < i}) = k - 1] = k - 1
      <4>1. reassembler.buffers = b /\ b[k - 1] = k - 1
        BY SMTT(60), <1>1, <2>3
      <4> QED
        BY Zenon, <2>5, <4>1
    <3> QED
      BY ZenonT(30), <2>2, <3>1 DEF Flattened
  <2>7. reassembler' = [at |-> "done", expected_total |-> t, frame |-> Flattened]
    BY Zenon, <1>1, <1>3 DEF Finish, is_complete
  <2>8. /\ reassembler'.at = "done" /\ reassembler'.expected_total = t
        /\ reassembler'.frame = [k \in 1..t |-> k - 1]
    BY <2>6, <2>7
  <2> QED
    BY SMTT(60), <2>8 DEF ReassemblyInv, FrameRebuilt
<1> QED
  BY Zenon, <1>2, <1>3

\* A frame that finish() of fragment.rs returns is the sender's, whole and in order, for
\* every number of fragments and every bound on it, whatever the order of arrival.
THEOREM FrameStaysWhole == ReassemblySpec => []FrameRebuilt
<1>1. ReassemblyInv /\ [ReassemblyNext]_reassembler => ReassemblyInv'
  <2> SUFFICES ASSUME ReassemblyInv, [ReassemblyNext]_reassembler PROVE ReassemblyInv'
    BY SMTT(60)
  <2>1. CASE UNCHANGED reassembler
    BY SMTT(60), <2>1 DEF ReassemblyInv, Open, FrameRebuilt
  <2>2. CASE ReassemblyNext
    <3>1. PICK t \in Nat \ {0}, n \in Nat : \E b \in [0..(t - 1) -> Int] : Open(t, n, b)
      BY ZenonT(30), <2>2 DEF ReassemblyInv, ReassemblyNext, Insert, Finish
    <3> QED
      BY SMTT(60), <2>2, <3>1, InsertKeeps, FinishRebuilds, FragmentAssumption DEF ReassemblyNext
  <2> QED
    BY SMTT(60), <2>1, <2>2
<1>2. ReassemblyInv => FrameRebuilt
  BY DEF ReassemblyInv, Open, FrameRebuilt
<1> QED
  BY <1>1, <1>2, ReassemblyInitInv, PTL DEF ReassemblySpec

=============================================================================
