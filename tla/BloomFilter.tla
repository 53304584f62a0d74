----------------------------- MODULE BloomFilter -----------------------------
(***************************************************************************)
(* The Bloom filter of utils.h as operators on the set of bits that are 1. *)
(* std::hash of an integer is the identity in the C++ library the program  *)
(* is built with, so the hash functions map a key to consecutive bits and  *)
(* neighbouring keys share most of theirs.                                 *)
(***************************************************************************)
EXTENDS Integers

CONSTANTS
    NumBits,    \* bitset.size()
    NumHashes   \* numHashes

ASSUME NumBitsAssumption == NumBits \in Nat \ {0}
ASSUME NumHashesAssumption == NumHashes \in Nat \ {0}

\* Mutant of BitsOf: the hash is not reduced to the size of the bitset.
BitsOfUnreduced(key) == {key + i : i \in 0..(NumHashes - 1)}

\* The bits of a key: hash(key, i) % bitset.size() for every i
BitsOf(key) == {(key + i) % NumBits : i \in 0..(NumHashes - 1)}

\* Mutant of FilterInsert: the last hash function is left out.
FilterInsertOneShort(bits, key) ==
    bits \cup {(key + i) % NumBits : i \in 0..(NumHashes - 2)}

FilterInsert(bits, key) == bits \cup BitsOf(key)

FilterInsertAll(bits, keys) == bits \cup UNION {BitsOf(k) : k \in keys}

PossiblyContains(bits, key) == BitsOf(key) \subseteq bits
=============================================================================
