---------------------------- MODULE RoutingTrie ----------------------------
(***************************************************************************)
(* The routing table (libsponge/router.hh, RoutingTrie): a binary trie on  *)
(* the bits of an address, most significant first.  An address is the      *)
(* sequence of its bits, a node is the path of bits that leads to it, and  *)
(* the trie maps each of its nodes to the route stored there, or NoRoute.  *)
(***************************************************************************)
EXTENDS Basics, Sequences

CONSTANTS AddressBits,   \* 32
          NoRoute,       \* an empty optional<RouteEntry>
          Direct         \* an empty next_hop: the network is attached

ASSUME AddressAssumption == AddressBits \in Nat

IpAddress == [1..AddressBits -> {0, 1}]

RouteEntry(prefix, length, nextHop, interface) ==
  [prefix |-> prefix, length |-> length, nextHop |-> nextHop, interface |-> interface]

Prefix(address, length) == SubSeq(address, 1, length)

EmptyTrie == [node \in {<<>>} |-> NoRoute]

\* The nodes on the way to the prefix, created where they are missing.
Navigate(address, length) == {Prefix(address, bit) : bit \in 0..length}

Insert(trie, entry) ==
  [node \in DOMAIN trie \cup Navigate(entry.prefix, entry.length) |->
     IF node = Prefix(entry.prefix, entry.length) THEN entry
     ELSE IF node \in DOMAIN trie THEN trie[node] ELSE NoRoute]

\* The loop of longest_prefix_match(): bit counts the nodes passed below the root, best is
\* the last route seen.
Walk(trie, address) ==
  [s \in [bit: 0..AddressBits, best: {trie[node] : node \in DOMAIN trie}] |->
     LET child == Prefix(address, s.bit + 1)
     IN  IF s.bit < AddressBits /\ child \in DOMAIN trie
         THEN [bit  |-> s.bit + 1,
               best |-> IF trie[child] # NoRoute THEN trie[child] ELSE s.best]
         ELSE s]

\* Faulty variant of LongestPrefixMatch: the walk ends a bit before the last.
MatchShort(trie, address) ==
  Orbit(Walk(trie, address), [bit |-> 0, best |-> trie[<<>>]])[AddressBits - 1].best

LongestPrefixMatch(trie, address) ==
  Orbit(Walk(trie, address), [bit |-> 0, best |-> trie[<<>>]])[AddressBits].best

-----------------------------------------------------------------------------
\* What the lookup is meant to be, read off the routes themselves: the matching ones, the
\* longest of them, NoRoute if there is none.
Matches(entry, address) == Prefix(entry.prefix, entry.length) = Prefix(address, entry.length)

IsLongestMatch(found, entries, address) ==
  LET matching == {e \in entries : Matches(e, address)}
  IN  IF matching = {} THEN found = NoRoute
      ELSE found \in matching /\ \A e \in matching : e.length <= found.length
=============================================================================
