---------------------------- MODULE ResourceTree ----------------------------
(***************************************************************************)
(* What the CSE promises about its resources, whatever it does on the way: *)
(* while it runs they form a tree that only grows.  A resource is created  *)
(* under a parent that exists, with an identifier no other resource has,   *)
(* and is never changed nor removed; "This projects does not support       *)
(* updates and deletes" (boot/system.example.cfg:19).  What is stored      *)
(* outlives a power failure, unless the owner of the node has the database *)
(* cleaned when the node starts.                                           *)
(***************************************************************************)
CONSTANT NoParent   \* the parent of the root

VARIABLES tree,     \* the resources, records with at least ri and pi
          open      \* the CSE serves requests

vars == <<tree, open>>

Init == tree = {} /\ open = FALSE

Create ==
    /\ open /\ open' = open
    /\ \E n \in tree' \ tree :
         /\ tree' = tree \cup {n}
         /\ \A m \in tree : m.ri # n.ri
         /\ \E p \in tree : p.ri = n.pi

(* A start keeps the tree, or begins a new one: with its root, or without  *)
(* when the root could not be stored.                                      *)
Start ==
    /\ ~ open /\ open' = TRUE
    /\ \/ tree' = tree
       \/ tree' = {}
       \/ \E root \in tree' : root.pi = NoParent /\ tree' = {root}

Stop == open /\ open' = FALSE /\ tree' = tree

Next == Create \/ Start \/ Stop

Spec == Init /\ [][Next]_vars
=============================================================================
