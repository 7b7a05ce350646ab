------------------------------ MODULE BpfMaps ------------------------------
(***************************************************************************)
(* A BPF hash map is a function over the keys that are present.            *)
(***************************************************************************)
EXTENDS Functions

\* bpf_map_update_elem with BPF_ANY.
Updated(map, key, value) ==
    [k \in DOMAIN map \union {key} |-> IF k = key THEN value ELSE map[k]]

\* bpf_map_delete_elem
Without(map, keys) == Restrict(map, DOMAIN map \ keys)
=============================================================================
