--------------------------- MODULE StateComparator ---------------------------
(***************************************************************************)
(* States as trees of fields: setting and getting fields (object.rs), the  *)
(* difference of two states (state_comparator.rs) and the part of it that  *)
(* a subscriber's field masks select (event_handler.rs).                   *)
(* A tree is a set of pairs of a field's path, the root's is <<>>, and its *)
(* node: a mapping, whose fields are the longer paths, a sequence, or a    *)
(* scalar.  A difference tree is a set of paths with the prefixes of each. *)
(***************************************************************************)
EXTENDS Naturals, Sequences, SequencesExt

Mapping == [kind |-> "mapping"]
Scalar(v) == [kind |-> "scalar", value |-> v]
Seqn(n) == [kind |-> "sequence", value |-> n]
Wildcard == "*"

Paths(T) == {x[1] : x \in T}

IsTree(T) ==
  /\ <<<<>>, Mapping>> \in T
  /\ \A x, y \in T : x[1] = y[1] => x = y
  /\ \A p \in Paths(T) \ {<<>>} : <<Front(p), Mapping>> \in T

-----------------------------------------------------------------------------
(* Fields of a tree *)

Below(p, q) == IsPrefix(p, q)

\* Object::remove.
RemoveField(T, p) == {x \in T : ~Below(p, x[1])}

\* The mappings on the way to p.
Way(p) == {<<SubSeq(p, 1, n), Mapping>> : n \in 0..Len(p) - 1}

\* Object::set, of what X has at p; objects on the way that are missing are added.
SetField(T, p, X) == RemoveField(T, p) \cup {x \in X : Below(p, x[1])} \cup Way(p)

Matches(mask, p) ==
  Len(mask) = Len(p) /\ \A n \in 1..Len(p) : mask[n] \in {Wildcard, p[n]}

\* Object::expand_wildcards.
expand_wildcards(T, masks) == {p \in Paths(T) : \E m \in masks : Matches(m, p)}

\* ServerState::get_complete_state_by_field_mask.
get_complete_state_by_field_mask(T, masks) ==
  IF masks = {} THEN T
  ELSE LET fields == expand_wildcards(T, masks)
       IN {x \in T : x[1] = <<>> \/ \E p \in fields : Below(p, x[1]) \/ Below(x[1], p)}

-----------------------------------------------------------------------------
(* StateComparator::state_differences *)

WithPrefixes(P) == UNION {{SubSeq(p, 1, n) : n \in 1..Len(p)} : p \in P}

\* Fields that are new, of mappings that both states have.
NewFields(T, U) == {p \in Paths(U) \ Paths(T) : <<Front(p), Mapping>> \in T}

\* A sequence gets its first item.
FilledSequences(T, U) ==
  {x[1] : x \in {y \in U : y[2].kind = "sequence" /\ y[2] # Seqn(0) /\ <<y[1], Seqn(0)>> \in T}}

\* Of the fields that are added.
first_difference_tree(T, U) == WithPrefixes(NewFields(T, U) \cup FilledSequences(T, U))

\* Mutant: the first difference is all there is.
full_difference_treeMutant(T, U) == WithPrefixes(NewFields(T, U))

full_difference_tree(T, U) ==
  WithPrefixes({q \in Paths(U) : \E p \in NewFields(T, U) : Below(p, q)})

updated_tree(T, U) ==
  WithPrefixes((Paths(T \ U) \cap Paths(U \ T)) \ (FilledSequences(T, U) \cup FilledSequences(U, T)))

state_differences(T, U) ==
  [added |-> [first |-> first_difference_tree(T, U), full |-> full_difference_tree(T, U)],
   removed |-> [first |-> first_difference_tree(U, T), full |-> full_difference_tree(U, T)],
   updated |-> [first |-> updated_tree(T, U), full |-> updated_tree(T, U)]]

-----------------------------------------------------------------------------
(* create_altered_fields_matching_subscriber_masks *)

Children(D, p) == {q \in D : Len(q) = Len(p) + 1 /\ Below(p, q)}
Leaves(D, p) == {q \in D : Below(p, q) /\ q # p /\ Children(D, q) = {}}

RECURSIVE MatchMask(_, _, _, _)

\* A step to child c, which is in `full`.  Where `first` is at its end and the mask
\* is not, the mask is followed in `full`; but if it ends there at a mapping that a
\* name, not a wildcard, leads to, nothing is found.
MatchChild(first, full, c, mask) ==
  LET rest == Tail(mask)
      in_first == Children(first, c) # {}
      in_full == Children(full, c) # {}
  IN IF in_first /\ in_full THEN MatchMask(first, full, c, rest)
     ELSE IF in_first THEN {}
     ELSE IF rest # <<>> THEN IF in_full THEN MatchMask(first, full, c, rest) ELSE {}
     ELSE IF Head(mask) = Wildcard \/ c \in first \/ ~in_full THEN {c} ELSE {}

\* The altered fields below p that `mask` selects.
MatchMask(first, full, p, mask) ==
  IF mask = <<>> THEN Leaves(first, p)
  ELSE UNION {MatchChild(first, full, c, mask) :
                c \in {d \in Children(full, p) : Head(mask) \in {Wildcard, Last(d)}}}

AlteredFields(d, masks) ==
  IF masks = {} THEN Leaves(d.first, <<>>)
  ELSE UNION {MatchMask(d.first, d.full, <<>>, m) : m \in masks}

=============================================================================
