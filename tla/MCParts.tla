------------------------------- MODULE MCParts -------------------------------
(***************************************************************************)
(* The parts that do not depend on each other's state, checked side by     *)
(* side: an initial state picks one of them, and only that one moves.  The *)
(* Android application is two: pairing, and the call screen from the       *)
(* moment that pairing has handed its session over.                        *)
(***************************************************************************)
EXTENDS Wire, Reassembly, FloorController, Ptt, RateControl, CodecSession, Rooms,
        Android, Stun, AudioIo

VARIABLE part

\* One message of every type, its bytes all different, from a seed.
Sample(t, seed) ==
  LET at == Written(t)
      Bytes(f) == [i \in 1..(at[f][2] - at[f][1]) |-> (seed + 3 * at[f][1] + 5 * i) % 128]
  IN [type |-> t,
      header |-> [flags |-> seed, msg_type |-> 0, session_id |-> 1000 * seed,
                  sequence |-> 2147483647 - seed, timestamp |-> 77777 * seed],
      m |-> [f \in Fields(at) |->
               IF t = "AudioFragment" THEN (IF f = "total" THEN 16 ELSE seed % 16)
               ELSE IF f \in Arrays THEN Bytes(f) ELSE FromBytes(Bytes(f))]]
SomeSamples == {Sample(t, 90) : t \in DOMAIN code}

\* One presses twice, the other once: a denial may come after the next press.
SomePresses == [alice |-> 2, bob |-> 1]
SomeLosses == [through_relay \in BOOLEAN |-> IF through_relay THEN 0 ELSE 1]

\* Two servers that see the socket under different ports; what they answer with.
SomeBits == {"ip", "port"}
SomeCookie == [b \in SomeBits |-> b = "port"]
SomeSeen == <<[b \in SomeBits |-> b = "ip"], [b \in SomeBits |-> TRUE]>>
SomeLocal == [b \in SomeBits |-> FALSE]
SomeLayouts == {<<"software", "xor">>, <<"mapped", "xor">>, <<"xor6", "mapped">>}

\* Full scale and beyond, and a level that an i16 does not have.
SomeGiven == [F32 |-> {-3, 1}, I16 |-> {-2, 1}, U16 |-> {0, 3}]

partsVars == <<part, wire, reassembler, floorVars, pttVars, rateVars, codecVars, roomVars,
               androidVars, stunVars, ioVars>>

\* A part that does not move has a single initial state.
Init ==
  /\ part \in {"wire", "reassembly", "floor", "ptt", "rate", "codec", "rooms", "pairing", "screen",
              "stun", "io"}
  /\ WireInit /\ ReassemblyInit /\ FloorInit /\ PttInit /\ RateInit /\ CodecInit /\ RoomsInit
  /\ StunInit /\ IoInit
  /\ IF part = "screen" THEN HandedOver ELSE AndroidInit
  /\ part # "reassembly" => reassembler.at = "TooManyFragments"
  /\ part # "ptt" => ~relayed
  /\ part # "rate" => bitrate >= 0
  /\ part # "io" => in_format = "I16" /\ out_format = "I16"

Next ==
  \/ /\ part = "wire" /\ WireNext
     /\ UNCHANGED <<part, reassembler, floorVars, pttVars, rateVars, codecVars, roomVars,
                    androidVars, stunVars, ioVars>>
  \/ /\ part = "reassembly" /\ ReassemblyNext
     /\ UNCHANGED <<part, wire, floorVars, pttVars, rateVars, codecVars, roomVars,
                    androidVars, stunVars, ioVars>>
  \/ /\ part = "floor" /\ FloorNext
     /\ UNCHANGED <<part, wire, reassembler, pttVars, rateVars, codecVars, roomVars,
                    androidVars, stunVars, ioVars>>
  \/ /\ part = "ptt" /\ PttNext
     /\ UNCHANGED <<part, wire, reassembler, floorVars, rateVars, codecVars, roomVars,
                    androidVars, stunVars, ioVars>>
  \/ /\ part = "rate" /\ RateNext
     /\ UNCHANGED <<part, wire, reassembler, floorVars, pttVars, codecVars, roomVars,
                    androidVars, stunVars, ioVars>>
  \/ /\ part = "codec" /\ CodecNext
     /\ UNCHANGED <<part, wire, reassembler, floorVars, pttVars, rateVars, roomVars,
                    androidVars, stunVars, ioVars>>
  \/ /\ part = "rooms" /\ RoomsNext
     /\ UNCHANGED <<part, wire, reassembler, floorVars, pttVars, rateVars, codecVars,
                    androidVars, stunVars, ioVars>>
  \/ /\ part = "pairing" /\ PairingNext /\ UNCHANGED screenVars
     /\ UNCHANGED <<part, wire, reassembler, floorVars, pttVars, rateVars, codecVars, roomVars,
                    stunVars, ioVars>>
  \/ /\ part = "screen" /\ AndroidNext
     /\ UNCHANGED <<part, wire, reassembler, floorVars, pttVars, rateVars, codecVars, roomVars,
                    stunVars, ioVars>>
  \/ /\ part = "stun" /\ StunNext
     /\ UNCHANGED <<part, wire, reassembler, floorVars, pttVars, rateVars, codecVars, roomVars,
                    androidVars, ioVars>>
  \/ /\ part = "io" /\ IoNext
     /\ UNCHANGED <<part, wire, reassembler, floorVars, pttVars, rateVars, codecVars, roomVars,
                    androidVars, stunVars>>

Spec == Init /\ [][Next]_partsVars
=============================================================================
