-------------------------------- MODULE Stun --------------------------------
(***************************************************************************)
(* The STUN client (gravital-talk-transport, stun.rs) and the native call  *)
(* that Android makes it through: discover_public_addr asks one server     *)
(* after the other from one socket and waits five seconds for each, so the *)
(* answer of an earlier server may come while it waits for a later one.    *)
(*                                                                         *)
(* Behind a NAT every server may see the socket under another address.  An *)
(* address is the bits of its ip and port; the offsets of the attributes   *)
(* are those of the bytes.                                                 *)
(***************************************************************************)
EXTENDS Integers, Sequences

CONSTANTS
  STUN_SERVERS,  \* how many servers the table has
  AddrBits,      \* the bits of an ip and a port
  Cookie,        \* MAGIC_COOKIE on these bits
  Seen,          \* Seen[s]: the address that server s sees
  Local,         \* the address behind the NAT
  Layouts        \* the attributes that a server may answer with, in order

ASSUME StunAssumption ==
  /\ STUN_SERVERS \in Nat /\ Cookie \in [AddrBits -> BOOLEAN]
  /\ Seen \in [1..STUN_SERVERS -> [AddrBits -> BOOLEAN]]

VARIABLES
  stun,          \* where discover_public_addr is
  server,        \* the server it is at
  asked,         \* requests that have been sent
  socket,        \* datagrams on their way to the socket, in no order
  found          \* the address found

stunVars == <<stun, server, asked, socket, found>>

NoAddr == <<>>

StunInit == stun = "bind" /\ server = 1 /\ asked = {} /\ socket = {} /\ found = NoAddr

-----------------------------------------------------------------------------
(* parse_binding_response *)

\* Exclusive or with the cookie, which undoes itself.
Masked(a) == [i \in AddrBits |-> a[i] # Cookie[i]]

\* The IPv4 forms; an attribute of the other family has no address.
parse_xor_mapped_address(a) ==
  IF a.len < 8 \/ a.family # 4 THEN NoAddr ELSE Masked(a.addr)
parse_mapped_address(a) ==
  IF a.len < 8 \/ a.family # 4 THEN NoAddr ELSE a.addr

\* Where the attributes begin: each is four bytes and its value, aligned to four.
Offset(attrs) ==
  LET pos[i \in 1..(Len(attrs) + 1)] ==
        IF i = 1 THEN 20 ELSE pos[i - 1] + 4 + 4 * ((attrs[i - 1].len + 3) \div 4)
  IN pos

\* Those the loop comes to: it stops at the first that goes past the end.
Read(attrs, end) ==
  {i \in 1..Len(attrs) : \A j \in 1..i : Offset(attrs)[j] + 4 + attrs[j].len <= end}

\* The first XOR-MAPPED-ADDRESS that can be read is the answer, and without one the last
\* MAPPED-ADDRESS.
MappedAddress(attrs, end) ==
  LET xor == {i \in Read(attrs, end) : attrs[i].type = "XOR-MAPPED"
                                      /\ parse_xor_mapped_address(attrs[i]) # NoAddr}
      legacy == {i \in Read(attrs, end) : attrs[i].type = "MAPPED"
                                         /\ parse_mapped_address(attrs[i]) # NoAddr}
  IN IF xor # {}
     THEN parse_xor_mapped_address(attrs[CHOOSE i \in xor : \A j \in xor : i <= j])
     ELSE IF legacy # {}
          THEN parse_mapped_address(attrs[CHOOSE i \in legacy : \A j \in legacy : j <= i])
          ELSE NoAddr

\* Mutant: any binding response is taken for the answer.
AnyTransaction(buf, expected_tx_id) ==
  IF buf.size < 20 \/ buf.msg_type # "response" \/ buf.size < 20 + buf.msg_len \/ ~buf.magic
  THEN NoAddr
  ELSE MappedAddress(buf.attrs, 20 + buf.msg_len)

parse_binding_response(buf, expected_tx_id) ==
  IF \/ buf.size < 20 \/ buf.msg_type # "response" \/ buf.size < 20 + buf.msg_len
     \/ ~buf.magic \/ buf.tx_id # expected_tx_id
  THEN NoAddr
  ELSE MappedAddress(buf.attrs, 20 + buf.msg_len)

-----------------------------------------------------------------------------
(* discover_public_addr *)

\* The runtime of the native call, which may not be built, and the socket, which may not
\* be bound.
Bind(outcome) ==
  /\ stun = "bind" /\ stun' = outcome
  /\ UNCHANGED <<server, asked, socket, found>>

\* The next server: the name is not resolved, sending fails, an error of the socket, or
\* five seconds are over.
NextServer ==
  /\ stun \in {"resolve", "wait"} /\ server <= STUN_SERVERS
  /\ server' = server + 1 /\ stun' = "resolve"
  /\ UNCHANGED <<asked, socket, found>>

\* 96 random bits: no two requests share them.
random_tx_id(s) == <<"tx", s>>
build_binding_request(s, tx_id) == [to |-> s, msg_type |-> "request", tx_id |-> tx_id]

Request ==
  /\ stun = "resolve" /\ server <= STUN_SERVERS
  /\ asked' = asked \cup {build_binding_request(server, random_tx_id(server))}
  /\ stun' = "wait"
  /\ UNCHANGED <<server, socket, found>>

\* do_stun_exchange: what is not the answer is ignored.
Receive(buf) ==
  /\ stun = "wait" /\ buf \in socket
  /\ socket' = socket \ {buf}
  /\ found' = parse_binding_response(buf, random_tx_id(server))
  /\ stun' = IF found' # NoAddr THEN "found" ELSE "wait"
  /\ UNCHANGED <<server, asked>>

\* StunError::Timeout
AllFailed ==
  /\ stun = "resolve" /\ server > STUN_SERVERS
  /\ stun' = "failed"
  /\ UNCHANGED <<server, asked, socket, found>>

\* The buffer of the caller holds every IPv4 address with its port.
gs_discover_public_addr ==
  CASE stun = "found"      -> "GS_OK"
    [] stun = "no runtime" -> "GS_ERR_INTERNAL"
    [] stun = "failed"     -> "GS_ERR_TIMEOUT"

\* The address, or null for every other status; new_string, which fails when the virtual
\* machine has no memory, is left out.
nativeDiscoverPublicAddr ==
  /\ stun \in {"found", "no runtime", "failed"}
  /\ stun' = IF gs_discover_public_addr = "GS_OK" THEN "address" ELSE "null"
  /\ UNCHANGED <<server, asked, socket, found>>

-----------------------------------------------------------------------------
(* External: the servers, and what else comes to the socket *)

\* What server s writes.  A NAT may replace the address it finds in plain.
ServerWrites(kind, s, replaced) ==
  CASE kind = "xor"    -> [type |-> "XOR-MAPPED", len |-> 8, family |-> 4,
                           addr |-> Masked(Seen[s])]
    [] kind = "xor6"   -> [type |-> "XOR-MAPPED", len |-> 20, family |-> 6, addr |-> NoAddr]
    [] kind = "mapped" -> [type |-> "MAPPED", len |-> 8, family |-> 4,
                           addr |-> IF replaced THEN Local ELSE Seen[s]]
    [] kind = "software" -> [type |-> "SOFTWARE", len |-> 5, family |-> 0, addr |-> NoAddr]

Answer(request, layout, replaced) ==
  /\ request \in asked /\ stun \in {"resolve", "wait"}
  /\ replaced => \E i \in 1..Len(layout) : layout[i] = "xor"
  /\ LET attrs == [i \in 1..Len(layout) |-> ServerWrites(layout[i], request.to, replaced)]
         end == Offset(attrs)[Len(attrs) + 1]
     IN socket' = socket \cup {[msg_type |-> "response", size |-> end, msg_len |-> end - 20,
                                magic |-> TRUE, tx_id |-> request.tx_id, attrs |-> attrs]}
  /\ UNCHANGED <<stun, server, asked, found>>

\* Other traffic to the same port: too short, of another type, without the cookie.
Noise(size, type) ==
  /\ stun \in {"resolve", "wait"}
  /\ socket' = socket \cup {[msg_type |-> type, size |-> size, msg_len |-> 0,
                             magic |-> FALSE, tx_id |-> <<>>, attrs |-> <<>>]}
  /\ UNCHANGED <<stun, server, asked, found>>

StunNext ==
  \/ \E outcome \in {"no runtime", "failed", "resolve"} : Bind(outcome)
  \/ NextServer \/ Request \/ AllFailed \/ nativeDiscoverPublicAddr
  \/ \E buf \in socket : Receive(buf)
  \/ \E request \in asked, layout \in Layouts, replaced \in BOOLEAN :
       Answer(request, layout, replaced)
  \/ \E size \in {12, 20}, type \in {"other", "response"} : Noise(size, type)

-----------------------------------------------------------------------------
\* The address that Android gets is the one that the server asked last sees the socket
\* under: not what an earlier server answers after its five seconds, nor what a NAT has
\* made of the attribute in plain.  Without an address every server has been tried.
FindsOwnAddress ==
  /\ stun = "address" => server <= STUN_SERVERS /\ found = Seen[server]
  /\ stun = "null" => server > STUN_SERVERS \/ asked = {}
=============================================================================
