-------------------------------- MODULE Payloads --------------------------------
(***************************************************************************)
(* The structures of RTypeNet.hpp that travel in messages and datagrams,   *)
(* as the compiler lays them out (x86-64): what operator<< copies into a   *)
(* body is the memory of the structure, the padding included, and both     *)
(* ends have to agree on its size.                                         *)
(***************************************************************************)
EXTENDS Naturals, Sequences, SequencesExt, TLC

\* A type is its size and its alignment, in bytes.
Type(bytes, alignment) == [bytes |-> bytes, alignment |-> alignment]

Byte == Type(1, 1)
Short == Type(2, 2)
Word == Type(4, 4)
Long == Type(8, 8)

\* The enumerations, which have the types of their values.
ServerMessages == Word
ShipType == Byte
WeaponType == Byte
ShipColor == Byte

uuid == Type(16, 1)     \* uuids::uuid, an array of bytes
vec2 == Type(8, 4)      \* glm::vec2, two floats
Username_t == Type(32, 1)

RoundUp(n, alignment) == ((n + alignment - 1) \div alignment) * alignment

\* The layout of a structure: its members in order, each at its alignment.
Struct(members) ==
  LET Place(offset, m) == RoundUp(offset, m.alignment) + m.bytes
      strictest == Max({members[i].alignment : i \in DOMAIN members})
  IN  Type(RoundUp(FoldLeft(Place, 0, members), strictest), strictest)

--------------------------------------------------------------------------------
(* The records of the game. *)

\* The union of weaponInfo has the size of one of its members.
ShipInfo_t == Struct(<<ShipType, WeaponType, ShipColor, Short>>)

connectedPlayers_s == Struct(<<uuid, Username_t>>)

\* An array is so many members.
MAX_PLAYERS == 16
Lobby_t == Struct(<<uuid, Short, Short, Short>>
                    \o [i \in 1..MAX_PLAYERS |-> connectedPlayers_s] \o <<Byte>>)

Player_t == Struct(<<uuid, Username_t, Byte, Byte, ShipInfo_t, Short, Byte, Long, Byte,
                     vec2, vec2>>)

--------------------------------------------------------------------------------
(* Namespace tcp: what a client asks, and what the server answers. *)

CreateLobby_t == Struct(<<Short>>)
DeleteLobby_t == Struct(<<uuid>>)
JoinLobby_t == Struct(<<uuid, uuid, Username_t, ShipColor>>)
LeaveLobby_t == Struct(<<uuid, uuid>>)
StartLobby_t == Struct(<<uuid>>)

LobbyCreated_t == Struct(<<uuid, Short, Short>>)
LobbyDeleted_t == Struct(<<uuid>>)
LobbyJoined_t == Struct(<<uuid, uuid, Username_t>>)
LobbyLeft_t == Struct(<<uuid, uuid>>)
LobbyStarted_t == Struct(<<uuid>>)

(* Namespace udp. *)

Move_t == Struct(<<ServerMessages, uuid, vec2, vec2>>)
Shoot_t == Struct(<<ServerMessages, uuid, vec2, vec2, Byte>>)
AddEnemy == Struct(<<ServerMessages, Byte, vec2, vec2, Long>>)

--------------------------------------------------------------------------------
\* Any of them may be packed into a message.
Datagrams == [Move |-> Move_t, Shoot |-> Shoot_t, AddEnemy |-> AddEnemy]

Payload == [CreateLobby |-> CreateLobby_t, LobbyCreated |-> LobbyCreated_t,
            DeleteLobby |-> DeleteLobby_t, LobbyDeleted |-> LobbyDeleted_t,
            JoinLobby |-> JoinLobby_t, LobbyJoined |-> LobbyJoined_t,
            LeaveLobby |-> LeaveLobby_t, LobbyLeft |-> LobbyLeft_t,
            StartLobby |-> StartLobby_t, LobbyStarted |-> LobbyStarted_t,
            Lobby |-> Lobby_t, Player |-> Player_t] @@ Datagrams

sizeof(p) == Payload[p].bytes

\* No structure is empty: a fold that has no parameter, and can be evaluated.
ASSUME PayloadsHaveBytes == \A p \in DOMAIN Payload : sizeof(p) \in Nat \ {0}

(***************************************************************************)
(* The size of a datagram tells its payload.  (Its first member, the       *)
(* messayeType, does not: AddEnemy_s carries the ClientShoot of Shoot_s.)  *)
(***************************************************************************)
ASSUME DatagramSizesDiffer ==
  \A p, q \in DOMAIN Datagrams : p # q => sizeof(p) # sizeof(q)
================================================================================
