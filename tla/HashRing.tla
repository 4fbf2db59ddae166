------------------------------ MODULE HashRing ------------------------------
(***************************************************************************)
(* HashRing (crypto/hashring.rs): `nodes` maps the hash of each device on  *)
(* the ring to the device, in the order of the hashes.  A URL belongs to   *)
(* the first device at or after its own hash, and past the last one to the *)
(* first of all.  The second map, `devices`, is written beside it and never*)
(* read; each operation is therefore one step, its lock on `nodes`.        *)
(***************************************************************************)
EXTENDS Naturals

CONSTANTS NoDevice,            \* Option<Uuid>::None where a device id is expected
          HashDevice, HashUrl  \* hash_device and hash_url, u64

EmptyRing == [h \in {} |-> NoDevice]

add_device(nodes, d) ==
  [h \in DOMAIN nodes \cup {HashDevice[d]} |-> IF h = HashDevice[d] THEN d ELSE nodes[h]]

remove_device(nodes, d) == [h \in DOMAIN nodes \ {HashDevice[d]} |-> nodes[h]]

Least(S) == CHOOSE h \in S : \A k \in S : h <= k

AtOrAfter(nodes, u) == {h \in DOMAIN nodes : h >= HashUrl[u]}

get_owner(nodes, u) ==
  IF DOMAIN nodes = {} THEN NoDevice
  ELSE nodes[Least(IF AtOrAfter(nodes, u) # {} THEN AtOrAfter(nodes, u) ELSE DOMAIN nodes)]
=============================================================================
