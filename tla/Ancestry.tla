------------------------------ MODULE Ancestry ------------------------------
(***************************************************************************)
(* Walking a table of links that point to their parent.  A table is a      *)
(* sequence of records with a field parent: the index of the link it was   *)
(* derived from, or 0 for a root.  delegation.Grant links grants by its    *)
(* Parent pointer; delegation_chains by parent_delegation_id.              *)
(***************************************************************************)
EXTENDS Naturals, Sequences

(* S contains the parent of each of its links.                             *)
ParentClosed(tab, S) ==
    \A x \in S : tab[x].parent # 0 => tab[x].parent \in S

(* The links from i up to its root: the least set of links that contains i *)
(* and is closed under parent.                                             *)
Chain(tab, i) ==
    {d \in 1..i : \A S \in SUBSET (1..i) :
                      i \in S /\ ParentClosed(tab, S) => d \in S}

(* The subtree below d, d included: WITH RECURSIVE tree.                   *)
Tree(tab, d) == {e \in DOMAIN tab : d \in Chain(tab, e)}

(* Every link points to an earlier one: what makes a walk terminate.       *)
WellParented(tab) ==
    \A i \in DOMAIN tab : tab[i].parent \in 0..(i - 1)
=============================================================================
