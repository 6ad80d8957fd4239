---------------------------- MODULE MCEntryConfig ----------------------------
(* EntryConfig for TLC: entries, hosts, keys and flows are interchangeable.  *)
EXTENDS EntryConfig, TLC

Symmetry == Permutations(Entries) \cup Permutations(Hosts)
                \cup Permutations(Keys) \cup Permutations(Forms)
=============================================================================
