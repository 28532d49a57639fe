------------------------------ MODULE HashMap ------------------------------
(***************************************************************************)
(* A Rust HashMap as a function whose domain is the set of present keys.   *)
(***************************************************************************)

\* HashMap::new
EmptyMap == [k \in {} |-> {}]

\* HashMap::insert: the new value replaces the one stored under the key.
Put(map, key, value) ==
  [k \in DOMAIN map \cup {key} |-> IF k = key THEN value ELSE map[k]]

\* HashMap::remove
Remove(map, key) == [k \in DOMAIN map \ {key} |-> map[k]]

=============================================================================
