----------------------------- MODULE NodeByNode -----------------------------
(***************************************************************************)
(* What a rolling upgrade promises, whatever fails on the way: the nodes   *)
(* are created in the order of the spec; then one node at a time is taken  *)
(* up, once all nodes before it have the image it is taken up for, and     *)
(* moves on to a newer image only while it is taken up.                    *)
(*                                                                         *)
(* RollingUpgrade implements this specification, with the upgrade          *)
(* annotation as the sign that a node is taken up.                         *)
(***************************************************************************)
EXTENDS Integers

CONSTANTS
    N,          \* number of nodes in spec.nodes
    MaxImage    \* newest image

VARIABLES
    target,     \* the image that the user wants
    image,      \* the image of each node, 0 before it exists
    active      \* the node that is taken up, 0 when there is none

vars == <<target, image, active>>

Init ==
    /\ target = 1
    /\ image = [n \in 1 .. N |-> 0]
    /\ active = 0

Raise ==
    /\ target' \in (target + 1) .. MaxImage
    /\ UNCHANGED <<image, active>>

Create(n) ==
    /\ active = 0
    /\ image[n] = 0
    /\ \A m \in 1 .. (n - 1) : image[m] # 0
    /\ \E i \in 1 .. target : image' = [image EXCEPT ![n] = i]
    /\ UNCHANGED <<target, active>>

TakeUp(n) ==
    /\ active = 0
    /\ active' = n
    /\ \E i \in (image[n] + 1) .. target :
          \A m \in 1 .. N : image[m] # 0 /\ (m < n => image[m] >= i)
    /\ UNCHANGED <<target, image>>

MoveOn(n) ==
    /\ active = n
    /\ \E i \in (image[n] + 1) .. target : image' = [image EXCEPT ![n] = i]
    /\ UNCHANGED <<target, active>>

PutDown ==
    /\ active # 0
    /\ active' = 0
    /\ UNCHANGED <<target, image>>

Next ==
    \/ Raise \/ PutDown
    \/ \E n \in 1 .. N : Create(n) \/ TakeUp(n) \/ MoveOn(n)

Spec == Init /\ [][Next]_vars

=============================================================================
