----------------------------- MODULE MerkleTree -----------------------------
(***************************************************************************)
(* The Merkle tree of backend/services/appraisal_service.py.  A hash is    *)
(* the term it is the hash of, so that hashes differ when their inputs do. *)
(***************************************************************************)
EXTENDS Integers, Sequences, SequencesExt

LeafHash(path, content, value) == <<"leaf", path, content, value>>

PairHash(left, right) == <<"pair", left, right>>

EmptyRoot == <<"empty">>

\* An odd layer ends with its last hash twice.
Padded(layer) ==
  IF Len(layer) > 1 /\ Len(layer) % 2 = 1 THEN Append(layer, Last(layer)) ELSE layer

Pairs(layer) == [i \in 1..(Len(layer) \div 2) |-> PairHash(layer[2 * i - 1], layer[2 * i])]

\* build_merkle_tree: the layers, from the leaves up; no tree has more of them.
Layers(leaves) ==
  LET layer[n \in 0..Len(leaves)] ==
        IF n = 0 THEN leaves ELSE Pairs(Padded(layer[n - 1]))
  IN layer

\* Where the loop ends: the first layer without two hashes.
Height(leaves) ==
  LET layers == Layers(leaves)
  IN CHOOSE n \in 0..Len(leaves) : /\ Len(layers[n]) <= 1
                                   /\ \A m \in 0..(n - 1) : Len(layers[m]) > 1

MerkleRoot(leaves) ==
  IF leaves = <<>> THEN EmptyRoot ELSE Layers(leaves)[Height(leaves)][1]

\* Mutant of Sibling: the neighbour to the right, from either side.
NextInLayer(position) == position + 1

\* idx ^ 1, in positions from 0.
Sibling(position) == IF position % 2 = 0 THEN position + 1 ELSE position - 1

\* The places, from 0, above the leaf at an index.
Positions(index, height) ==
  LET position[n \in 0..height] == IF n = 0 THEN index ELSE position[n - 1] \div 2
  IN position

\* merkle_proof, for the leaf at an index from 0.
MerkleProof(leaves, index) ==
  LET height == Height(leaves)
      layers == Layers(leaves)
      position == Positions(index, height)
  IN [n \in 1..height |->
        [sibling |-> Padded(layers[n - 1])[Sibling(position[n - 1]) + 1],
         direction |-> IF position[n - 1] % 2 = 0 THEN "right" ELSE "left"]]

\* A hash and the sibling of one step of a proof, in their order.
Hashed(hash, step) ==
  IF step.direction = "right" THEN PairHash(hash, step.sibling)
  ELSE PairHash(step.sibling, hash)

\* What the proof endpoint tells its clients to compute (verify_hint).
Hashes(leaf, proof) ==
  LET hash[n \in 0..Len(proof)] ==
        IF n = 0 THEN leaf ELSE Hashed(hash[n - 1], proof[n])
  IN hash

Climb(leaf, proof) == Hashes(leaf, proof)[Len(proof)]
=============================================================================
